---------------------------- MODULE Spec2Model ----------------------------
(***************************************************************************)
(* Session / auth lifecycle of BMDRM.SecurityCenter: the Route Gate        *)
(* (middleware.ts), the backend-for-frontend auth routes (login, session,  *)
(* refresh, logout), the client session controller (AuthProvider) and the  *)
(* authenticated fetch wrapper (authFetch).                                *)
(*                                                                         *)
(* Strings the code inspects character by character (request paths, the    *)
(* `next` query parameter) are sequences of one-character strings, so that *)
(* startsWith, === and the URL pathname setter are computed, not assumed.  *)
(* Opaque strings (tokens, messages) are TLA+ strings.                     *)
(***************************************************************************)
EXTENDS Naturals, Sequences, FiniteSets, Bags, TLC

VARIABLES
    env,            \* process.env of the server, fixed for a run
    cookie,         \* the browser's auth_token cookie (the Token Store)
    gate,           \* the Route Gate's last request and decision
    resp,           \* the last BFF exchange: request, upstream outcome, response
    session,        \* history: TRUE while the cookie of a successful login is kept
    isAuthenticated,\* AuthProvider state: "null" | "true" | "false"
    justLoggedIn,   \* AuthProvider justLoggedInRef.current
    isLoggingOut,   \* AuthProvider isLoggingOutRef.current
    pathname,       \* usePathname(): the client's current path
    nav,            \* the navigation the code made (router.replace) since the user's last one
    loginCall,      \* AuthProvider.login: the call in progress and its outcome
    clearTimers,    \* pending setTimeout callbacks that clear justLoggedInRef
    checks,         \* history: session checks the client has issued
    mounted,        \* AuthProvider is mounted
    intervals,      \* sessionCheckIntervalRef, refreshIntervalRef and the live setInterval timers
    initialCheck,   \* the setTimeout(..., 0) of the initial session check is pending
    sessionCalls,   \* checkSession calls in flight, by the pathname they closed over
    refreshCalls,   \* refreshToken calls in flight, by the pathname they closed over
    logoutCalls,    \* logout calls waiting for the response of /api/logout
    logoutTimers,   \* pending setTimeout callbacks that clear isLoggingOutRef
    lastCheck,      \* history: the last completed checkSession call, its answer and whether it redirected
    isRedirecting,  \* fetch.ts module flag
    fetches,        \* authFetch calls of the current page, by slot
    page,           \* history of the current page lifetime
    alerts,         \* AlertsPage state: the alert list
    limit,          \* AlertsPage state: the result limit
    loading,        \* AlertsPage state: the loading flag
    alertsMounted,  \* AlertsPage is mounted
    effects         \* runs of AlertsPage's fetch effect, in the order they started

serverVars == <<env, cookie, resp, session>>
gateVars == <<gate>>
providerVars ==
    <<mounted, intervals, initialCheck, sessionCalls, refreshCalls, logoutCalls,
      logoutTimers, lastCheck>>
clientVars ==
    <<isAuthenticated, justLoggedIn, isLoggingOut, pathname, nav, loginCall,
      clearTimers, checks, providerVars>>
fetchVars == <<isRedirecting, fetches, page>>
alertsVars == <<alerts, limit, loading, alertsMounted, effects>>
vars == <<serverVars, gateVars, clientVars, fetchVars, alertsVars>>

(***************************************************************************)
(* Values                                                                  *)
(***************************************************************************)

\* JavaScript's undefined / null for an opaque string.
Undefined == "<undefined>"

\* An optional value (URLSearchParams.get: null or a string).
None == <<>>
Some(v) == <<v>>

\* JavaScript truthiness of an opaque string-or-undefined.
Truthy(s) == s # Undefined /\ s # ""

\* Response.ok
Ok(status) == status >= 200 /\ status <= 299

\* String.prototype.startsWith on character sequences.
StartsWith(s, p) == Len(p) <= Len(s) /\ SubSeq(s, 1, Len(p)) = p

(***************************************************************************)
(* Paths                                                                   *)
(***************************************************************************)

LoginPath == <<"/", "l", "o", "g", "i", "n">>
NextAssets == <<"/", "_", "n", "e", "x", "t">>
Favicon == <<"/", "f", "a", "v", "i", "c", "o", "n", ".", "i", "c", "o">>
ApiLogin == <<"/", "a", "p", "i", "/", "l", "o", "g", "i", "n">>
ApiLogout == <<"/", "a", "p", "i", "/", "l", "o", "g", "o", "u", "t">>
ApiSession == <<"/", "a", "p", "i", "/", "s", "e", "s", "s", "i", "o", "n">>
ApiDebug == <<"/", "a", "p", "i", "/", "d", "e", "b", "u", "g">>
DefaultLanding == <<"/", "a", "l", "e", "r", "t", "s">>

\* Mutant of publicPaths: every route under /api is public.
publicPaths_ApiPublic ==
    {<<"/", "l", "o", "g", "i", "n">>, <<"/", "_", "n", "e", "x", "t">>,
     <<"/", "f", "a", "v", "i", "c", "o", "n", ".", "i", "c", "o">>,
     <<"/", "a", "p", "i", "/">>}

\* middleware.ts: publicPaths
publicPaths ==
    {LoginPath, NextAssets, Favicon, ApiLogin, ApiLogout, ApiSession, ApiDebug}

\* Other request paths of the application, used as inputs.
Root == <<"/">>
Decisions == <<"/", "d", "e", "c", "i", "s", "i", "o", "n", "s">>
ApiRefresh == <<"/", "a", "p", "i", "/", "r", "e", "f", "r", "e", "s", "h">>
ApiDecision == <<"/", "a", "p", "i", "/", "d", "e", "c", "i", "s", "i", "o", "n", "s", "/", "1">>
LoginHelp == <<"/", "l", "o", "g", "i", "n", "/", "h", "e", "l", "p">>
NextStatic == <<"/", "_", "n", "e", "x", "t", "/", "s", "t", "a", "t", "i", "c", "/", "a", ".", "j", "s">>
RelAlerts == <<"a", "l", "e", "r", "t", "s">>
QueryLike == <<"/", "a", "?", "b">>

RequestPaths ==
    {LoginPath, LoginHelp, NextStatic, Favicon, ApiLogin, ApiLogout, ApiSession,
     ApiDebug, Root, DefaultLanding, Decisions, ApiRefresh, ApiDecision}

\* Values of the `next` query parameter: absent, empty, paths, a relative
\* path, a value with a character the URL pathname setter encodes.
NextParams ==
    {None, Some(<<>>), Some(DefaultLanding), Some(Decisions), Some(LoginPath),
     Some(RelAlerts), Some(QueryLike)}

ReasonParams == {None, Some("session_expired")}

\* Values of the auth_token cookie a request carries (undefined: no cookie).
Tokens == {"t1", "t2"}
CookieValues == {Undefined, ""} \cup Tokens

(***************************************************************************)
(* Route Gate: middleware.ts                                               *)
(***************************************************************************)

\* The URL pathname setter (WHATWG URL, special scheme): the path always
\* starts with "/", and "?" and "#" are percent-encoded.
RECURSIVE EncodePath(_)
EncodePath(p) ==
    IF p = <<>> THEN <<>>
    ELSE (CASE Head(p) = "?" -> <<"%", "3", "F">>
            [] Head(p) = "#" -> <<"%", "2", "3">>
            [] OTHER -> <<Head(p)>>) \o EncodePath(Tail(p))

SetPathname(p) ==
    IF p # <<>> /\ Head(p) = "/" THEN EncodePath(p) ELSE <<"/">> \o EncodePath(p)

\* Mutant of IsPublic: a path is public only when it is equal to an entry.
IsPublic_ExactMatch(path) ==
    path \in publicPaths

\* publicPaths.some((p) => pathname.startsWith(p))
IsPublic(path) ==
    \E p \in publicPaths : StartsWith(path, p)

\* config.matcher: "/((?!_next/static|_next/image|favicon.ico|api/login).*)".
\* The gate runs on the paths that do not start with an excluded prefix.
NextStaticDir == <<"/", "_", "n", "e", "x", "t", "/", "s", "t", "a", "t", "i", "c">>
NextImageDir == <<"/", "_", "n", "e", "x", "t", "/", "i", "m", "a", "g", "e">>
matcherExcluded == {NextStaticDir, NextImageDir, Favicon, ApiLogin}
matcher(path) == ~ \E p \in matcherExcluded : StartsWith(path, p)

\* Mutant of NextOrDefault: the fallback target is the login screen.
NextOrDefault_LoginFallback(next) ==
    IF next # None /\ next[1] # <<>> THEN next[1] ELSE LoginPath

\* url.searchParams.get("next") || "/alerts"
NextOrDefault(next) ==
    IF next # None /\ next[1] # <<>> THEN next[1] ELSE DefaultLanding

\* The request as the gate reads it: nextUrl (pathname and search
\* parameters) and the auth_token cookie's value.
Requests ==
    [pathname : RequestPaths, next : NextParams, reason : ReasonParams,
     token : CookieValues]

PassThrough == [kind |-> "next"]
Redirect(path, next, reason) ==
    [kind |-> "redirect", pathname |-> path, next |-> next, reason |-> reason]

\* Mutant of middleware: the login redirect does not set the `next`
\* parameter to the request's path (it keeps whatever the request had).
middleware_NextNotSet(req) ==
    IF IsPublic(req.pathname)
    THEN IF req.pathname = LoginPath /\ Truthy(req.token)
         THEN Redirect(SetPathname(NextOrDefault(req.next)), None, None)
         ELSE PassThrough
    ELSE IF ~Truthy(req.token)
         THEN Redirect(LoginPath, req.next, req.reason)
         ELSE PassThrough

\* Mutant of middleware: the redirect away from /login keeps the query string.
middleware_SearchKept(req) ==
    IF IsPublic(req.pathname)
    THEN IF req.pathname = LoginPath /\ Truthy(req.token)
         THEN Redirect(SetPathname(NextOrDefault(req.next)), req.next, req.reason)
         ELSE PassThrough
    ELSE IF ~Truthy(req.token)
         THEN Redirect(LoginPath, Some(req.pathname), req.reason)
         ELSE PassThrough

\* Mutant of middleware: a cookie with an empty value counts as a cookie.
middleware_EmptyCookieCounts(req) ==
    IF IsPublic(req.pathname)
    THEN IF req.pathname = LoginPath /\ Truthy(req.token)
         THEN Redirect(SetPathname(NextOrDefault(req.next)), None, None)
         ELSE PassThrough
    ELSE IF req.token = Undefined
         THEN Redirect(LoginPath, Some(req.pathname), req.reason)
         ELSE PassThrough

\* Mutant of middleware: the gate looks at the token's value and lets only
\* one token through.
middleware_TokenValueChecked(req) ==
    IF IsPublic(req.pathname)
    THEN IF req.pathname = LoginPath /\ Truthy(req.token)
         THEN Redirect(SetPathname(NextOrDefault(req.next)), None, None)
         ELSE PassThrough
    ELSE IF req.token # "t1"
         THEN Redirect(LoginPath, Some(req.pathname), req.reason)
         ELSE PassThrough

middleware(req) ==
    IF IsPublic(req.pathname)
    THEN IF req.pathname = LoginPath /\ Truthy(req.token)
         THEN Redirect(SetPathname(NextOrDefault(req.next)), None, None)
         ELSE PassThrough
    ELSE IF ~Truthy(req.token)
         THEN Redirect(LoginPath, Some(req.pathname), req.reason)
         ELSE PassThrough

\* What a request gets: the gate's answer where config.matcher selects the
\* path, and no gate at all elsewhere.
gateResponse(req) ==
    IF matcher(req.pathname) THEN middleware(req) ELSE PassThrough

NoGate == [req |-> [pathname |-> <<>>, next |-> None, reason |-> None, token |-> Undefined],
           res |-> [kind |-> "none"]]


(***************************************************************************)
(* Token Store: the auth_token cookie                                      *)
(***************************************************************************)

NoCookie == [present |-> FALSE]

\* cookieStore.get("auth_token")?.value
TokenOf(c) == IF c.present THEN c.value ELSE Undefined

\* The options object of cookieStore.set in the login route.
LoginCookie(token, e) ==
    [present |-> TRUE, value |-> token, httpOnly |-> TRUE, sameSite |-> "lax",
     path |-> "/", secure |-> e.production, maxAge |-> 60 * 60 * 24 * 7]

\* The options object of cookieStore.set in the refresh route.
RefreshCookie(token, e) ==
    [present |-> TRUE, value |-> token, httpOnly |-> TRUE, sameSite |-> "lax",
     path |-> "/", secure |-> (e.production \/ e.forceHttps),
     maxAge |-> 60 * 60 * 24 * 7]

\* What a handler does to the cookie store: nothing, set, delete.
Keep == [op |-> "none"]
SetCookie(c) == [op |-> "set", cookie |-> c]
DeleteCookie == [op |-> "delete"]

\* The browser applying the response's Set-Cookie header to its jar.
ApplyCookie(c, op) ==
    CASE op.op = "set" -> op.cookie
      [] op.op = "delete" -> NoCookie
      [] OTHER -> c

\* Cookie writes (cookieStore.set calls) of one handler run.
Writes(op) == IF op.op = "set" THEN 1 ELSE 0

(***************************************************************************)
(* Environment and upstream                                                *)
(***************************************************************************)

\* process.env as the routes read it: ENABLE_TOKEN_REFRESH === "true",
\* VALIDATE_TOKEN_WITH_BACKEND === "true", API_BASE || NEXT_PUBLIC_API_BASE,
\* NODE_ENV === "production", FORCE_HTTPS === "true".
Envs ==
    [refresh : BOOLEAN, validate : BOOLEAN, base : BOOLEAN,
     production : BOOLEAN, forceHttps : BOOLEAN]

\* Upstream response bodies: the raw text and what JSON.parse makes of it
\* ("invalid": it throws; "null": the value null; "obj": an object with the
\* fields read by the routes, Undefined when missing).
Body(text, json, accessToken, error) ==
    [text |-> text, json |-> json, accessToken |-> accessToken, error |-> error]

UpstreamBodies ==
    { Body("", "invalid", Undefined, Undefined),
      Body("Bad Gateway", "invalid", Undefined, Undefined),
      Body("null", "null", Undefined, Undefined),
      Body("{}", "obj", Undefined, Undefined),
      Body("{accessToken:t1}", "obj", "t1", Undefined),
      Body("{accessToken:t2}", "obj", "t2", Undefined),
      Body("{accessToken:}", "obj", "", Undefined),
      Body("{error:Invalid email or password}", "obj", Undefined,
           "Invalid email or password"),
      Body("{error:}", "obj", Undefined, "") }

UpstreamStatuses == {200, 201, 400, 403, 429, 500}

\* An upstream call: fetch rejects (network failure) or answers.
Throws == [kind |-> "throws"]
Upstreams ==
    {Throws} \cup [kind : {"response"}, status : UpstreamStatuses, body : UpstreamBodies]

\* No upstream call was made.
NotCalled == [kind |-> "none"]

(***************************************************************************)
(* BFF login route: POST /api/login                                        *)
(***************************************************************************)

\* Request bodies: req.json() throws, yields null, or yields an object.
LoginBody(kind, email, password) ==
    [kind |-> kind, email |-> email, password |-> password]

LoginBodies ==
    {LoginBody("invalid", Undefined, Undefined), LoginBody("null", Undefined, Undefined)}
    \cup {LoginBody("obj", em, pw) : em \in {Undefined, "", "a@b.c"},
                                     pw \in {Undefined, "", "pw"}}

\* A handler's result: the response, its cookie operation, and whether it
\* called upstream.
Result(status, body, op, called) ==
    [status |-> status, body |-> body, cookieOp |-> op, called |-> called]

\* (data && data.error) || text || "Invalid credentials"
LoginErrorOf(b) ==
    IF b.json = "obj" /\ Truthy(b.error) THEN b.error
    ELSE IF b.text # "" THEN b.text
    ELSE "Invalid credentials"

\* (data as any)?.accessToken
AccessTokenOf(b) == IF b.json = "obj" THEN b.accessToken ELSE Undefined

\* Mutant of LoginPOST: the presence of email and password is not checked.
LoginPOST_NoValidation(body, e, up) ==
    IF body.kind = "invalid"
    THEN Result(500, [error |-> "Unexpected end of JSON input"], Keep, FALSE)
    ELSE IF ~e.base
    THEN Result(500, [error |-> "API_BASE is not configured"], Keep, FALSE)
    ELSE IF up.kind = "throws"
    THEN Result(500, [error |-> "fetch failed"], Keep, TRUE)
    ELSE IF ~Ok(up.status)
    THEN Result(401, [error |-> LoginErrorOf(up.body)], Keep, TRUE)
    ELSE IF ~Truthy(AccessTokenOf(up.body))
    THEN Result(502, [error |-> "No accessToken returned from API"], Keep, TRUE)
    ELSE Result(200, [success |-> TRUE],
                SetCookie(LoginCookie(AccessTokenOf(up.body), e)), TRUE)

\* Mutant of LoginPOST: the token is tested against undefined only, so an
\* empty accessToken is written to the cookie.
LoginPOST_EmptyTokenAccepted(body, e, up) ==
    IF body.kind = "invalid"
    THEN Result(500, [error |-> "Unexpected end of JSON input"], Keep, FALSE)
    ELSE IF ~Truthy(body.email) \/ ~Truthy(body.password)
    THEN Result(400, [error |-> "Missing credentials"], Keep, FALSE)
    ELSE IF ~e.base
    THEN Result(500, [error |-> "API_BASE is not configured"], Keep, FALSE)
    ELSE IF up.kind = "throws"
    THEN Result(500, [error |-> "fetch failed"], Keep, TRUE)
    ELSE IF ~Ok(up.status)
    THEN Result(401, [error |-> LoginErrorOf(up.body)], Keep, TRUE)
    ELSE IF AccessTokenOf(up.body) = Undefined
    THEN Result(502, [error |-> "No accessToken returned from API"], Keep, TRUE)
    ELSE Result(200, [success |-> TRUE],
                SetCookie(LoginCookie(AccessTokenOf(up.body), e)), TRUE)

\* Mutant of LoginPOST: the upstream's status is passed on.
LoginPOST_StatusPassedOn(body, e, up) ==
    IF body.kind = "invalid"
    THEN Result(500, [error |-> "Unexpected end of JSON input"], Keep, FALSE)
    ELSE IF ~Truthy(body.email) \/ ~Truthy(body.password)
    THEN Result(400, [error |-> "Missing credentials"], Keep, FALSE)
    ELSE IF ~e.base
    THEN Result(500, [error |-> "API_BASE is not configured"], Keep, FALSE)
    ELSE IF up.kind = "throws"
    THEN Result(500, [error |-> "fetch failed"], Keep, TRUE)
    ELSE IF ~Ok(up.status)
    THEN Result(up.status, [error |-> LoginErrorOf(up.body)], Keep, TRUE)
    ELSE IF ~Truthy(AccessTokenOf(up.body))
    THEN Result(502, [error |-> "No accessToken returned from API"], Keep, TRUE)
    ELSE Result(200, [success |-> TRUE],
                SetCookie(LoginCookie(AccessTokenOf(up.body), e)), TRUE)

\* Mutant of LoginPOST: the cookie is set on a response object that is not
\* the one returned, so no cookie reaches the browser.
LoginPOST_CookieLost(body, e, up) ==
    IF body.kind = "invalid"
    THEN Result(500, [error |-> "Unexpected end of JSON input"], Keep, FALSE)
    ELSE IF ~Truthy(body.email) \/ ~Truthy(body.password)
    THEN Result(400, [error |-> "Missing credentials"], Keep, FALSE)
    ELSE IF ~e.base
    THEN Result(500, [error |-> "API_BASE is not configured"], Keep, FALSE)
    ELSE IF up.kind = "throws"
    THEN Result(500, [error |-> "fetch failed"], Keep, TRUE)
    ELSE IF ~Ok(up.status)
    THEN Result(401, [error |-> LoginErrorOf(up.body)], Keep, TRUE)
    ELSE IF ~Truthy(AccessTokenOf(up.body))
    THEN Result(502, [error |-> "No accessToken returned from API"], Keep, TRUE)
    ELSE Result(200, [success |-> TRUE], Keep, TRUE)

\* Mutant of LoginPOST: the success body hands the token to the script.
LoginPOST_TokenInBody(body, e, up) ==
    IF body.kind = "invalid"
    THEN Result(500, [error |-> "Unexpected end of JSON input"], Keep, FALSE)
    ELSE IF ~Truthy(body.email) \/ ~Truthy(body.password)
    THEN Result(400, [error |-> "Missing credentials"], Keep, FALSE)
    ELSE IF ~e.base
    THEN Result(500, [error |-> "API_BASE is not configured"], Keep, FALSE)
    ELSE IF up.kind = "throws"
    THEN Result(500, [error |-> "fetch failed"], Keep, TRUE)
    ELSE IF ~Ok(up.status)
    THEN Result(401, [error |-> LoginErrorOf(up.body)], Keep, TRUE)
    ELSE IF ~Truthy(AccessTokenOf(up.body))
    THEN Result(502, [error |-> "No accessToken returned from API"], Keep, TRUE)
    ELSE Result(200, [success |-> TRUE, accessToken |-> AccessTokenOf(up.body)],
                SetCookie(LoginCookie(AccessTokenOf(up.body), e)), TRUE)

LoginPOST(body, e, up) ==
    IF body.kind = "invalid"
    THEN Result(500, [error |-> "Unexpected end of JSON input"], Keep, FALSE)
    ELSE IF ~Truthy(body.email) \/ ~Truthy(body.password)
    THEN Result(400, [error |-> "Missing credentials"], Keep, FALSE)
    ELSE IF ~e.base
    THEN Result(500, [error |-> "API_BASE is not configured"], Keep, FALSE)
    ELSE IF up.kind = "throws"
    THEN Result(500, [error |-> "fetch failed"], Keep, TRUE)
    ELSE IF ~Ok(up.status)
    THEN Result(401, [error |-> LoginErrorOf(up.body)], Keep, TRUE)
    ELSE IF ~Truthy(AccessTokenOf(up.body))
    THEN Result(502, [error |-> "No accessToken returned from API"], Keep, TRUE)
    ELSE Result(200, [success |-> TRUE],
                SetCookie(LoginCookie(AccessTokenOf(up.body), e)), TRUE)

(***************************************************************************)
(* BFF session route: GET /api/session                                     *)
(***************************************************************************)

\* Mutant of SessionGET: the validation flag is not consulted.
SessionGET_AlwaysValidates(token, e, up) ==
    IF ~Truthy(token)
    THEN Result(401, [authenticated |-> FALSE], Keep, FALSE)
    ELSE IF ~e.base
    THEN Result(200, [authenticated |-> TRUE], Keep, FALSE)
    ELSE IF up.kind = "throws"
    THEN Result(200, [authenticated |-> TRUE], Keep, TRUE)
    ELSE IF ~Ok(up.status)
    THEN Result(401, [authenticated |-> FALSE], DeleteCookie, TRUE)
    ELSE Result(200, [authenticated |-> TRUE], Keep, TRUE)

\* Mutant of SessionGET: a token upstream rejects is reported but the cookie
\* is left in place.
SessionGET_RejectKeepsCookie(token, e, up) ==
    IF ~Truthy(token)
    THEN Result(401, [authenticated |-> FALSE], Keep, FALSE)
    ELSE IF ~e.validate
    THEN Result(200, [authenticated |-> TRUE], Keep, FALSE)
    ELSE IF ~e.base
    THEN Result(200, [authenticated |-> TRUE], Keep, FALSE)
    ELSE IF up.kind = "throws"
    THEN Result(200, [authenticated |-> TRUE], Keep, TRUE)
    ELSE IF ~Ok(up.status)
    THEN Result(401, [authenticated |-> FALSE], Keep, TRUE)
    ELSE Result(200, [authenticated |-> TRUE], Keep, TRUE)

\* Mutant of SessionGET: a validate call that throws is treated as a
\* rejection (fail closed).
SessionGET_FailsClosed(token, e, up) ==
    IF ~Truthy(token)
    THEN Result(401, [authenticated |-> FALSE], Keep, FALSE)
    ELSE IF ~e.validate
    THEN Result(200, [authenticated |-> TRUE], Keep, FALSE)
    ELSE IF ~e.base
    THEN Result(200, [authenticated |-> TRUE], Keep, FALSE)
    ELSE IF up.kind = "throws"
    THEN Result(401, [authenticated |-> FALSE], DeleteCookie, TRUE)
    ELSE IF ~Ok(up.status)
    THEN Result(401, [authenticated |-> FALSE], DeleteCookie, TRUE)
    ELSE Result(200, [authenticated |-> TRUE], Keep, TRUE)

\* The route with the optional upstream validation.
SessionGET(token, e, up) ==
    IF ~Truthy(token)
    THEN Result(401, [authenticated |-> FALSE], Keep, FALSE)
    ELSE IF ~e.validate
    THEN Result(200, [authenticated |-> TRUE], Keep, FALSE)
    ELSE IF ~e.base
    THEN Result(200, [authenticated |-> TRUE], Keep, FALSE)
    ELSE IF up.kind = "throws"
    THEN Result(200, [authenticated |-> TRUE], Keep, TRUE)
    ELSE IF ~Ok(up.status)
    THEN Result(401, [authenticated |-> FALSE], DeleteCookie, TRUE)
    ELSE Result(200, [authenticated |-> TRUE], Keep, TRUE)

\* The route as src/app/api/session/route.ts has it: presence only.
SessionRouteGET(token) ==
    Result(200, [authenticated |-> Truthy(token)], Keep, FALSE)

(***************************************************************************)
(* BFF refresh route: POST /api/refresh                                    *)
(***************************************************************************)

\* Mutant of RefreshPOST: the ENABLE_TOKEN_REFRESH flag is not consulted.
RefreshPOST_FlagIgnored(token, e, up) ==
    IF ~Truthy(token)
    THEN Result(401, [error |-> "No token found"], Keep, FALSE)
    ELSE IF ~e.base
    THEN Result(200, [success |-> TRUE, refreshed |-> FALSE], Keep, FALSE)
    ELSE IF up.kind = "throws"
    THEN Result(200, [success |-> TRUE, refreshed |-> FALSE], Keep, TRUE)
    ELSE IF ~Ok(up.status)
    THEN Result(200, [success |-> TRUE, refreshed |-> FALSE], Keep, TRUE)
    ELSE IF up.body.json = "invalid"
    THEN Result(200, [success |-> TRUE, refreshed |-> FALSE], Keep, TRUE)
    ELSE IF Truthy(AccessTokenOf(up.body))
    THEN Result(200, [success |-> TRUE, refreshed |-> TRUE],
                SetCookie(RefreshCookie(AccessTokenOf(up.body), e)), TRUE)
    ELSE Result(200, [success |-> TRUE, refreshed |-> FALSE], Keep, TRUE)

\* Mutant of RefreshPOST: a refresh upstream rejects clears the cookie.
RefreshPOST_ClearsOnFailure(token, e, up) ==
    IF ~Truthy(token)
    THEN Result(401, [error |-> "No token found"], Keep, FALSE)
    ELSE IF ~e.refresh
    THEN Result(200, [success |-> TRUE, refreshed |-> FALSE], Keep, FALSE)
    ELSE IF ~e.base
    THEN Result(200, [success |-> TRUE, refreshed |-> FALSE], Keep, FALSE)
    ELSE IF up.kind = "throws"
    THEN Result(200, [success |-> TRUE, refreshed |-> FALSE], Keep, TRUE)
    ELSE IF ~Ok(up.status)
    THEN Result(200, [success |-> TRUE, refreshed |-> FALSE], DeleteCookie, TRUE)
    ELSE IF up.body.json = "invalid"
    THEN Result(200, [success |-> TRUE, refreshed |-> FALSE], Keep, TRUE)
    ELSE IF Truthy(AccessTokenOf(up.body))
    THEN Result(200, [success |-> TRUE, refreshed |-> TRUE],
                SetCookie(RefreshCookie(AccessTokenOf(up.body), e)), TRUE)
    ELSE Result(200, [success |-> TRUE, refreshed |-> FALSE], Keep, TRUE)

\* Mutant of RefreshPOST: the refresh flag is read before the cookie.
RefreshPOST_FlagBeforeCookie(token, e, up) ==
    IF ~e.refresh
    THEN Result(200, [success |-> TRUE, refreshed |-> FALSE], Keep, FALSE)
    ELSE IF ~Truthy(token)
    THEN Result(401, [error |-> "No token found"], Keep, FALSE)
    ELSE IF ~e.base
    THEN Result(200, [success |-> TRUE, refreshed |-> FALSE], Keep, FALSE)
    ELSE IF up.kind = "throws"
    THEN Result(200, [success |-> TRUE, refreshed |-> FALSE], Keep, TRUE)
    ELSE IF ~Ok(up.status)
    THEN Result(200, [success |-> TRUE, refreshed |-> FALSE], Keep, TRUE)
    ELSE IF up.body.json = "invalid"
    THEN Result(200, [success |-> TRUE, refreshed |-> FALSE], Keep, TRUE)
    ELSE IF Truthy(AccessTokenOf(up.body))
    THEN Result(200, [success |-> TRUE, refreshed |-> TRUE],
                SetCookie(RefreshCookie(AccessTokenOf(up.body), e)), TRUE)
    ELSE Result(200, [success |-> TRUE, refreshed |-> FALSE], Keep, TRUE)

RefreshPOST(token, e, up) ==
    IF ~Truthy(token)
    THEN Result(401, [error |-> "No token found"], Keep, FALSE)
    ELSE IF ~e.refresh
    THEN Result(200, [success |-> TRUE, refreshed |-> FALSE], Keep, FALSE)
    ELSE IF ~e.base
    THEN Result(200, [success |-> TRUE, refreshed |-> FALSE], Keep, FALSE)
    ELSE IF up.kind = "throws"
    THEN Result(200, [success |-> TRUE, refreshed |-> FALSE], Keep, TRUE)
    ELSE IF ~Ok(up.status)
    THEN Result(200, [success |-> TRUE, refreshed |-> FALSE], Keep, TRUE)
    ELSE IF up.body.json = "invalid"
    THEN Result(200, [success |-> TRUE, refreshed |-> FALSE], Keep, TRUE)
    ELSE IF Truthy(AccessTokenOf(up.body))
    THEN Result(200, [success |-> TRUE, refreshed |-> TRUE],
                SetCookie(RefreshCookie(AccessTokenOf(up.body), e)), TRUE)
    ELSE Result(200, [success |-> TRUE, refreshed |-> FALSE], Keep, TRUE)

(***************************************************************************)
(* BFF decisions route: DELETE /api/decisions/[id]                         *)
(***************************************************************************)

\* The handler has no try/catch: an exception thrown inside it leaves the
\* handler, and the framework answers 500 on its behalf.
UncaughtBody == [uncaught |-> TRUE]
Uncaught(called) == Result(500, UncaughtBody, Keep, called)

\* Mutant of DecisionsDELETE: an upstream refusal ends the session.
DecisionsDELETE_ClearsOnRefusal(token, e, up) ==
    IF ~Truthy(token)
    THEN Result(401, [error |-> "Unauthorized"], Keep, FALSE)
    ELSE IF ~e.base
    THEN Result(500, [error |-> "API_BASE is not configured"], Keep, FALSE)
    ELSE IF up.kind = "throws"
    THEN Uncaught(TRUE)
    ELSE IF ~Ok(up.status)
    THEN Result(up.status, [error |-> up.body.text], DeleteCookie, TRUE)
    ELSE Result(200, [success |-> TRUE], Keep, TRUE)

\* Mutant of DecisionsDELETE: an upstream failure is reported as 502.
DecisionsDELETE_StatusMasked(token, e, up) ==
    IF ~Truthy(token)
    THEN Result(401, [error |-> "Unauthorized"], Keep, FALSE)
    ELSE IF ~e.base
    THEN Result(500, [error |-> "API_BASE is not configured"], Keep, FALSE)
    ELSE IF up.kind = "throws"
    THEN Uncaught(TRUE)
    ELSE IF ~Ok(up.status)
    THEN Result(502, [error |-> up.body.text], Keep, TRUE)
    ELSE Result(200, [success |-> TRUE], Keep, TRUE)

DecisionsDELETE(token, e, up) ==
    IF ~Truthy(token)
    THEN Result(401, [error |-> "Unauthorized"], Keep, FALSE)
    ELSE IF ~e.base
    THEN Result(500, [error |-> "API_BASE is not configured"], Keep, FALSE)
    ELSE IF up.kind = "throws"
    THEN Uncaught(TRUE)
    ELSE IF ~Ok(up.status)
    THEN Result(up.status, [error |-> up.body.text], Keep, TRUE)
    ELSE Result(200, [success |-> TRUE], Keep, TRUE)

(***************************************************************************)
(* BFF logout route: POST /api/logout                                      *)
(***************************************************************************)

\* Mutant of LogoutPOST: the cookie is not deleted.
LogoutPOST_CookieKept == Result(200, [success |-> TRUE], Keep, FALSE)

\* Deletes the cookie whether or not one exists.
LogoutPOST == Result(200, [success |-> TRUE], DeleteCookie, FALSE)


(***************************************************************************)
(* The Route Gate on a request                                             *)
(***************************************************************************)

Gate(req) ==
    /\ gate' = [req |-> req, res |-> gateResponse(req)]
    /\ UNCHANGED <<alertsVars, serverVars, clientVars, fetchVars>>

(***************************************************************************)
(* BFF exchanges: the browser sends its cookie, the route runs, the        *)
(* browser applies the response's cookie operation                         *)
(***************************************************************************)

NoResp == [route |-> "none"]
NoBody == LoginBody("none", Undefined, Undefined)

Exchange(route, body, up, r) ==
    [route |-> route, token |-> TokenOf(cookie), body |-> body,
     up |-> IF r.called THEN up ELSE NotCalled, res |-> r, before |-> cookie]

\* The upstream outcomes to draw for a handler run: all of `ups` when the
\* handler calls upstream, one when it does not.
Drawn(called, ups) == IF called THEN ups ELSE {Throws}

\* The validate endpoint's body is never read.
ValidateUpstreams ==
    {Throws} \cup [kind : {"response"}, status : UpstreamStatuses,
                   body : {Body("", "invalid", Undefined, Undefined)}]

BffLogin(body, up) ==
    LET r == LoginPOST(body, env, up) IN
    /\ up \in Drawn(r.called, Upstreams)
    /\ resp' = Exchange("login", body, up, r)
    /\ cookie' = ApplyCookie(cookie, r.cookieOp)
    /\ session' = IF r.cookieOp.op = "set" THEN TRUE ELSE session
    /\ UNCHANGED <<alertsVars, env, gateVars, clientVars, fetchVars>>

BffSession(up) ==
    LET r == SessionGET(TokenOf(cookie), env, up) IN
    /\ up \in Drawn(r.called, ValidateUpstreams)
    /\ resp' = Exchange("session", NoBody, up, r) @@ [session |-> session]
    /\ cookie' = ApplyCookie(cookie, r.cookieOp)
    /\ session' = IF r.cookieOp.op = "delete" THEN FALSE ELSE session
    /\ UNCHANGED <<alertsVars, env, gateVars, clientVars, fetchVars>>

BffSessionRoute ==
    LET r == SessionRouteGET(TokenOf(cookie)) IN
    /\ resp' = Exchange("sessionRoute", NoBody, Throws, r) @@ [session |-> session]
    /\ cookie' = ApplyCookie(cookie, r.cookieOp)
    /\ UNCHANGED <<alertsVars, env, session, gateVars, clientVars, fetchVars>>

BffRefresh(up) ==
    LET r == RefreshPOST(TokenOf(cookie), env, up) IN
    /\ up \in Drawn(r.called, Upstreams)
    /\ resp' = Exchange("refresh", NoBody, up, r)
    /\ cookie' = ApplyCookie(cookie, r.cookieOp)
    /\ UNCHANGED <<alertsVars, env, session, gateVars, clientVars, fetchVars>>

BffDecisions(up) ==
    LET r == DecisionsDELETE(TokenOf(cookie), env, up) IN
    /\ up \in Drawn(r.called, Upstreams)
    /\ resp' = Exchange("decisions", NoBody, up, r)
    /\ cookie' = ApplyCookie(cookie, r.cookieOp)
    /\ UNCHANGED <<alertsVars, env, session, gateVars, clientVars, fetchVars>>

BffLogout ==
    LET r == LogoutPOST IN
    /\ resp' = Exchange("logout", NoBody, Throws, r)
    /\ cookie' = ApplyCookie(cookie, r.cookieOp)
    /\ session' = FALSE
    /\ UNCHANGED <<alertsVars, env, gateVars, clientVars, fetchVars>>

\* The BFF routes behind the gate: a request first meets the gate, with the
\* cookie the browser holds, and reaches the route's handler only when the
\* gate passes it. A redirected request is no exchange with a handler.
GatedRoutes == {"login", "logout", "session", "refresh", "decisions"}

RoutePath(route) ==
    CASE route = "login" -> ApiLogin
      [] route = "logout" -> ApiLogout
      [] route = "session" -> ApiSession
      [] route = "refresh" -> ApiRefresh
      [] route = "decisions" -> ApiDecision

HandlerResult(route, body, up) ==
    CASE route = "login" -> LoginPOST(body, env, up)
      [] route = "logout" -> LogoutPOST
      [] route = "session" -> SessionGET(TokenOf(cookie), env, up)
      [] route = "refresh" -> RefreshPOST(TokenOf(cookie), env, up)
      [] route = "decisions" -> DecisionsDELETE(TokenOf(cookie), env, up)

GatedRequest(route, body, up) ==
    LET req == [pathname |-> RoutePath(route), next |-> None, reason |-> None,
                token |-> TokenOf(cookie)]
        r == HandlerResult(route, body, up)
    IN
    /\ body \in (IF route = "login" THEN LoginBodies ELSE {NoBody})
    /\ gate' = [req |-> req, res |-> gateResponse(req)]
    /\ IF gateResponse(req) = PassThrough
       THEN /\ up \in Drawn(r.called,
                             IF route = "session" THEN ValidateUpstreams ELSE Upstreams)
            /\ resp' = Exchange(route, body, up, r)
            /\ cookie' = ApplyCookie(cookie, r.cookieOp)
            /\ session' = CASE r.cookieOp.op = "set" -> TRUE
                            [] r.cookieOp.op = "delete" -> FALSE
                            [] OTHER -> session
       ELSE /\ up = Throws
            /\ resp' = NoResp
            /\ UNCHANGED <<cookie, session>>
    /\ UNCHANGED <<alertsVars, env, clientVars, fetchVars>>

\* The cookie is the client's to send: a user agent may present any value,
\* also one upstream never issued, or an empty one.
ClientCookie(v) ==
    [present |-> TRUE, value |-> v, httpOnly |-> FALSE, sameSite |-> "lax",
     path |-> "/", secure |-> FALSE, maxAge |-> 60 * 60 * 24 * 7]

BrowserSetsCookie(v) ==
    /\ cookie' = ClientCookie(v)
    /\ resp' = NoResp
    /\ session' = FALSE
    /\ UNCHANGED <<alertsVars, env, gateVars, clientVars, fetchVars>>

(***************************************************************************)
(* Client Session Controller: AuthProvider                                 *)
(***************************************************************************)

\* The two implementations of GET /api/session.
SessionRoutes == {"session", "sessionRoute"}

\* Pending justLoggedIn timers kept apart in the model, and the bound of the
\* history counter of session checks.
MaxTimers == 1
MaxChecks == 2

\* What the client's fetch of a BFF route can come to: the route's response,
\* a rejected fetch (network failure), or an intermediary's error page (a
\* non-2xx response whose body is not JSON).
Transports == {"bff", "throws", "gateway"}
GatewayResult == Result(504, [html |-> "Gateway Timeout"], Keep, FALSE)

\* (data as any)?.error, data being the parsed body or {} when it does not parse.
ErrorField(body) == IF "error" \in DOMAIN body THEN body.error ELSE Undefined

\* new Error((data as any)?.error || "Login failed")
LoginErrorMessage(body) ==
    IF Truthy(ErrorField(body)) THEN ErrorField(body) ELSE "Login failed"

\* Mutant of LoginRejects: a non-ok login response is not treated as a failure.
LoginRejects_Never(res) == FALSE

\* if (!res.ok) throw ...
LoginRejects(res) == ~Ok(res.status)

\* !!data?.authenticated of a session response whose body parses.
AuthenticatedField(body) ==
    IF "authenticated" \in DOMAIN body THEN body.authenticated ELSE FALSE

\* No checkSession call has completed.
NoCheck == [answer |-> "none", redirected |-> FALSE]

\* What a fetch of /api/session was answered: the fetch rejected, or the
\* response says unauthenticated (not ok, or authenticated not true), or it
\* says authenticated.
Answer(via, r) ==
    IF via = "throws" THEN "threw"
    ELSE IF Ok(r.status) /\ AuthenticatedField(r.body) THEN "authenticated"
    ELSE "unauthenticated"

\* The guard of checkSession's redirect to /login?reason=session_expired.
ShouldRedirect(path) ==
    ~isLoggingOut /\ ~justLoggedIn /\ path # <<>> /\ ~StartsWith(path, LoginPath)

\* The URL handed to router.replace: path, `next` and `reason` parameters.
SessionExpiredUrl ==
    [pathname |-> LoginPath, next |-> None, reason |-> Some("session_expired")]

\* Mutant of CheckSessionOutcome: a rejected fetch leaves the flag as it is,
\* as refreshToken's catch does.
CheckSessionOutcome_ThrowLeavesFlag(via, r, path) ==
    IF via = "throws"
    THEN [auth |-> isAuthenticated, redirect |-> FALSE]
    ELSE IF ~Ok(r.status) \/ r.status = 401
    THEN [auth |-> "false", redirect |-> ShouldRedirect(path)]
    ELSE IF AuthenticatedField(r.body)
    THEN [auth |-> "true", redirect |-> FALSE]
    ELSE [auth |-> "false", redirect |-> ShouldRedirect(path)]

\* Mutant of CheckSessionOutcome: right after a login the flag is set to
\* authenticated without regard to the answer.
CheckSessionOutcome_TrustsLogin(via, r, path) ==
    IF justLoggedIn
    THEN [auth |-> "true", redirect |-> FALSE]
    ELSE IF via = "throws"
    THEN [auth |-> "false", redirect |-> FALSE]
    ELSE IF ~Ok(r.status) \/ r.status = 401
    THEN [auth |-> "false", redirect |-> ShouldRedirect(path)]
    ELSE IF AuthenticatedField(r.body)
    THEN [auth |-> "true", redirect |-> FALSE]
    ELSE [auth |-> "false", redirect |-> ShouldRedirect(path)]

\* Mutant of CheckSessionOutcome: a non-ok response leaves the flag as it is.
CheckSessionOutcome_NonOkLeavesFlag(via, r, path) ==
    IF via = "throws"
    THEN [auth |-> "false", redirect |-> FALSE]
    ELSE IF ~Ok(r.status) \/ r.status = 401
    THEN [auth |-> isAuthenticated, redirect |-> ShouldRedirect(path)]
    ELSE IF AuthenticatedField(r.body)
    THEN [auth |-> "true", redirect |-> FALSE]
    ELSE [auth |-> "false", redirect |-> ShouldRedirect(path)]

\* checkSession on the outcome of its fetch of /api/session: the new flag and
\* whether it redirects. `path` is the pathname the callback closed over.
CheckSessionOutcome(via, r, path) ==
    IF via = "throws"
    THEN [auth |-> "false", redirect |-> FALSE]
    ELSE IF ~Ok(r.status) \/ r.status = 401
    THEN [auth |-> "false", redirect |-> ShouldRedirect(path)]
    ELSE IF AuthenticatedField(r.body)
    THEN [auth |-> "true", redirect |-> FALSE]
    ELSE [auth |-> "false", redirect |-> ShouldRedirect(path)]

\* router.replace(url): the navigation and its effect on the current path.
Replace(url) == /\ nav' = Some(url) /\ pathname' = url.pathname

\* The interval timers: the two refs (TRUE when non-null) and the number of
\* setInterval timers of each kind that have not been cleared.
NoIntervals ==
    [sessionCheckIntervalRef |-> FALSE, refreshIntervalRef |-> FALSE,
     session |-> 0, refresh |-> 0]

\* if (ref.current) { clearInterval(ref.current); ref.current = null }, for
\* both refs: in logout and in the cleanup of the timers effect.
ClearIntervals(t) ==
    [sessionCheckIntervalRef |-> FALSE, refreshIntervalRef |-> FALSE,
     session |-> IF t.sessionCheckIntervalRef THEN t.session - 1 ELSE t.session,
     refresh |-> IF t.refreshIntervalRef THEN t.refresh - 1 ELSE t.refresh]

\* ref.current = setInterval(...), for both refs: a timer a ref still held
\* stays alive.
StartIntervals(t) ==
    [sessionCheckIntervalRef |-> TRUE, refreshIntervalRef |-> TRUE,
     session |-> t.session + 1, refresh |-> t.refresh + 1]

\* Mutant of TimersEffect: the effect returns no cleanup.
TimersEffect_NoCleanup(old, new, t) ==
    IF new = "true" THEN StartIntervals(t) ELSE t

\* The timers effect re-running: the cleanup the previous run returned (it
\* returned one when isAuthenticated was true), then the set-up.
TimersEffect(old, new, t) ==
    LET cleaned == IF old = "true" THEN ClearIntervals(t) ELSE t
    IN  IF new = "true" THEN StartIntervals(cleaned) ELSE cleaned

\* setIsAuthenticated(auth) and a current path of `path`, committed by React
\* together with the effects whose dependencies changed: the timers effect
\* (isAuthenticated, checkSession, refreshToken) and the initial-check effect
\* (checkSession); checkSession and refreshToken change with pathname. The
\* effects run before the next timer or response is handled. An unmounted
\* provider has no state to set and no effects.
Commit(auth, path) ==
    /\ isAuthenticated' = IF mounted THEN auth ELSE isAuthenticated
    /\ intervals' = IF mounted /\ (auth # isAuthenticated \/ path # pathname)
                    THEN TimersEffect(isAuthenticated, auth, intervals)
                    ELSE intervals
    /\ initialCheck' = IF mounted /\ path # pathname THEN TRUE ELSE initialCheck

\* login(email, password): the request to /api/login is sent.
LoginStart(email, password) ==
    /\ mounted
    /\ loginCall.pc \in {"idle", "rejected", "resolved"}
    /\ loginCall' = [pc |-> "fetching", body |-> LoginBody("obj", email, password),
                     path |-> pathname]
    /\ UNCHANGED <<alertsVars, serverVars, gateVars, fetchVars, isAuthenticated, justLoggedIn,
                   isLoggingOut, pathname, nav, clearTimers, checks, providerVars>>

\* login: the response to /api/login arrives (the route has run against the
\* browser's cookie), or the fetch fails. A non-ok response rejects the
\* call; an ok one sets justLoggedInRef and issues the session check.
LoginResponse(via, up) ==
    /\ loginCall.pc = "fetching"
    /\ checks < MaxChecks
    /\ LET r == IF via = "bff" THEN LoginPOST(loginCall.body, env, up) ELSE GatewayResult
           done == [body |-> loginCall.body, path |-> loginCall.path, via |-> via,
                    up |-> IF r.called THEN up ELSE NotCalled, res |-> r]
       IN
       /\ up \in Drawn(r.called, Upstreams)
       /\ cookie' = ApplyCookie(cookie, r.cookieOp)
       /\ session' = IF r.cookieOp.op = "set" THEN TRUE ELSE session
       /\ IF via = "throws"
          THEN /\ loginCall' = done @@ [pc |-> "rejected", error |-> "Failed to fetch"]
               /\ UNCHANGED <<justLoggedIn, checks>>
          ELSE IF LoginRejects(r)
          THEN /\ loginCall' = done @@ [pc |-> "rejected", error |-> LoginErrorMessage(r.body)]
               /\ UNCHANGED <<justLoggedIn, checks>>
          ELSE /\ loginCall' = done @@ [pc |-> "checking"]
               /\ justLoggedIn' = TRUE
               /\ checks' = checks + 1
    /\ UNCHANGED <<alertsVars, env, resp, gateVars, fetchVars, isAuthenticated, isLoggingOut,
                   pathname, nav, clearTimers, providerVars>>

\* login: its session check completes (either session route may be the one
\* deployed), the flag is set, and the timer clearing justLoggedInRef is
\* scheduled.
LoginCheckDone(via, impl, up) ==
    /\ loginCall.pc = "checking"
    /\ clearTimers < MaxTimers
    /\ LET r == CASE via # "bff" -> GatewayResult
                  [] via = "bff" /\ impl = "session" -> SessionGET(TokenOf(cookie), env, up)
                  [] OTHER -> SessionRouteGET(TokenOf(cookie))
           out == CheckSessionOutcome(via, r, loginCall.path)
       IN
       /\ up \in Drawn(r.called, ValidateUpstreams)
       /\ cookie' = ApplyCookie(cookie, r.cookieOp)
       /\ session' = IF r.cookieOp.op = "delete" THEN FALSE ELSE session
       /\ Commit(out.auth, IF out.redirect THEN LoginPath ELSE pathname)
       /\ IF out.redirect THEN Replace(SessionExpiredUrl) ELSE UNCHANGED <<nav, pathname>>
       /\ lastCheck' = [answer |-> Answer(via, r), redirected |-> out.redirect]
       /\ loginCall' = [loginCall EXCEPT !.pc = "resolved"]
       /\ clearTimers' = clearTimers + 1
    /\ UNCHANGED <<alertsVars, env, resp, gateVars, fetchVars, justLoggedIn, isLoggingOut, checks,
                   mounted, sessionCalls, refreshCalls, logoutCalls, logoutTimers>>

\* setTimeout(() => { justLoggedInRef.current = false }, 2000) fires.
ClearJustLoggedIn ==
    /\ clearTimers > 0
    /\ clearTimers' = clearTimers - 1
    /\ justLoggedIn' = FALSE
    /\ UNCHANGED <<alertsVars, serverVars, gateVars, fetchVars, isAuthenticated, isLoggingOut,
                   pathname, nav, loginCall, checks, providerVars>>

\* The user moves to another page of the application.
Navigate(path) ==
    /\ mounted
    /\ pathname # path
    /\ pathname' = path
    /\ nav' = None
    /\ Commit(isAuthenticated, path)
    /\ UNCHANGED <<alertsVars, serverVars, gateVars, fetchVars, justLoggedIn, isLoggingOut,
                   loginCall, clearTimers, checks, mounted, sessionCalls,
                   refreshCalls, logoutCalls, logoutTimers, lastCheck>>

\* Calls of checkSession (login's own check apart), refreshToken and logout
\* that are in progress together; a logout is in progress until its timer
\* has fired.
MaxCalls == 2

InFlight ==
    BagCardinality(sessionCalls) + BagCardinality(refreshCalls) + logoutCalls
        + logoutTimers

LoginUrl == [pathname |-> LoginPath, next |-> None, reason |-> None]
TokenExpiredUrl ==
    [pathname |-> LoginPath, next |-> None, reason |-> Some("token_expired")]

\* The timeout of the initial-check effect fires: void checkSession().
InitialSessionCheck ==
    /\ mounted /\ initialCheck
    /\ InFlight < MaxCalls
    /\ initialCheck' = FALSE
    /\ sessionCalls' = sessionCalls (+) SetToBag({pathname})
    /\ UNCHANGED <<alertsVars, lastCheck, serverVars, gateVars, fetchVars, isAuthenticated, justLoggedIn,
                   isLoggingOut, pathname, nav, loginCall, clearTimers, checks,
                   mounted, intervals, refreshCalls, logoutCalls, logoutTimers>>

\* The session interval ticks: void checkSession().
PeriodicSessionCheck ==
    /\ intervals.session > 0
    /\ InFlight < MaxCalls
    /\ sessionCalls' = sessionCalls (+) SetToBag({pathname})
    /\ UNCHANGED <<alertsVars, lastCheck, serverVars, gateVars, fetchVars, isAuthenticated, justLoggedIn,
                   isLoggingOut, pathname, nav, loginCall, clearTimers, checks,
                   mounted, intervals, initialCheck, refreshCalls, logoutCalls,
                   logoutTimers>>

\* The refresh interval ticks: void refreshToken().
PeriodicTokenRefresh ==
    /\ intervals.refresh > 0
    /\ InFlight < MaxCalls
    /\ refreshCalls' = refreshCalls (+) SetToBag({pathname})
    /\ UNCHANGED <<alertsVars, lastCheck, serverVars, gateVars, fetchVars, isAuthenticated, justLoggedIn,
                   isLoggingOut, pathname, nav, loginCall, clearTimers, checks,
                   mounted, intervals, initialCheck, sessionCalls, logoutCalls,
                   logoutTimers>>

\* A consumer of the context calls refresh() or checkSession().
ContextCheckSession ==
    /\ mounted
    /\ InFlight < MaxCalls
    /\ sessionCalls' = sessionCalls (+) SetToBag({pathname})
    /\ UNCHANGED <<alertsVars, lastCheck, serverVars, gateVars, fetchVars, isAuthenticated, justLoggedIn,
                   isLoggingOut, pathname, nav, loginCall, clearTimers, checks,
                   mounted, intervals, initialCheck, refreshCalls, logoutCalls,
                   logoutTimers>>

\* A checkSession call that closed over `path` gets the outcome of its fetch
\* of /api/session (the route has run against the browser's cookie).
SessionCheckDone(path, via, impl, up) ==
    /\ BagIn(path, sessionCalls)
    /\ LET r == CASE via # "bff" -> GatewayResult
                  [] via = "bff" /\ impl = "session" -> SessionGET(TokenOf(cookie), env, up)
                  [] OTHER -> SessionRouteGET(TokenOf(cookie))
           out == CheckSessionOutcome(via, r, path)
       IN
       /\ up \in Drawn(r.called, ValidateUpstreams)
       /\ cookie' = ApplyCookie(cookie, r.cookieOp)
       /\ session' = IF r.cookieOp.op = "delete" THEN FALSE ELSE session
       /\ Commit(out.auth, IF out.redirect THEN LoginPath ELSE pathname)
       /\ IF out.redirect THEN Replace(SessionExpiredUrl) ELSE UNCHANGED <<nav, pathname>>
       /\ lastCheck' = [answer |-> Answer(via, r), redirected |-> out.redirect]
       /\ sessionCalls' = sessionCalls (-) SetToBag({path})
    /\ UNCHANGED <<alertsVars, env, resp, gateVars, fetchVars, justLoggedIn, isLoggingOut,
                   loginCall, clearTimers, checks, mounted, refreshCalls, logoutCalls,
                   logoutTimers>>

\* Mutant of RefreshTokenOutcome: the redirect is suppressed after a login,
\* as checkSession's is.
RefreshTokenOutcome_GraceWindow(via, r, path) ==
    IF via = "throws"
    THEN [auth |-> isAuthenticated, redirect |-> FALSE]
    ELSE IF ~Ok(r.status) \/ r.status = 401
    THEN [auth |-> "false",
          redirect |-> ~isLoggingOut /\ ~justLoggedIn /\ path # <<>>
                       /\ ~StartsWith(path, LoginPath)]
    ELSE [auth |-> isAuthenticated, redirect |-> FALSE]

\* refreshToken on the outcome of its fetch of /api/refresh: the new flag and
\* whether it redirects. A rejected fetch is caught and changes nothing.
RefreshTokenOutcome(via, r, path) ==
    IF via = "throws"
    THEN [auth |-> isAuthenticated, redirect |-> FALSE]
    ELSE IF ~Ok(r.status) \/ r.status = 401
    THEN [auth |-> "false",
          redirect |-> ~isLoggingOut /\ path # <<>> /\ ~StartsWith(path, LoginPath)]
    ELSE [auth |-> isAuthenticated, redirect |-> FALSE]

\* A refreshToken call that closed over `path` gets the outcome of its fetch
\* of /api/refresh.
RefreshTokenDone(path, via, up) ==
    /\ BagIn(path, refreshCalls)
    /\ LET r == IF via = "bff" THEN RefreshPOST(TokenOf(cookie), env, up) ELSE GatewayResult
           out == RefreshTokenOutcome(via, r, path)
       IN
       /\ up \in Drawn(r.called, Upstreams)
       /\ cookie' = ApplyCookie(cookie, r.cookieOp)
       /\ Commit(out.auth, IF out.redirect THEN LoginPath ELSE pathname)
       /\ IF out.redirect THEN Replace(TokenExpiredUrl) ELSE UNCHANGED <<nav, pathname>>
       /\ refreshCalls' = refreshCalls (-) SetToBag({path})
    /\ UNCHANGED <<alertsVars, lastCheck, env, resp, session, gateVars, fetchVars, justLoggedIn, isLoggingOut,
                   loginCall, clearTimers, checks, mounted, sessionCalls, logoutCalls,
                   logoutTimers>>

\* logout(): the latch is set, both intervals are cleared, and the request
\* to /api/logout is sent.
LogoutStart ==
    /\ mounted
    /\ InFlight < MaxCalls
    /\ isLoggingOut' = TRUE
    /\ intervals' = ClearIntervals(intervals)
    /\ logoutCalls' = logoutCalls + 1
    /\ UNCHANGED <<alertsVars, lastCheck, serverVars, gateVars, fetchVars, isAuthenticated, justLoggedIn,
                   pathname, nav, loginCall, clearTimers, checks, mounted,
                   initialCheck, sessionCalls, refreshCalls, logoutTimers>>

\* logout(): the awaited fetch of /api/logout settles. A response of any
\* status lets the function go on (state set, navigation, timer); a rejected
\* fetch is not caught, so the function ends there.
LogoutSettles(via) ==
    /\ logoutCalls > 0
    /\ logoutCalls' = logoutCalls - 1
    /\ IF via = "throws"
       THEN UNCHANGED <<cookie, session, isAuthenticated, intervals, initialCheck,
                        nav, pathname, logoutTimers>>
       ELSE LET r == IF via = "bff" THEN LogoutPOST ELSE GatewayResult IN
            /\ cookie' = ApplyCookie(cookie, r.cookieOp)
            /\ session' = IF r.cookieOp.op = "delete" THEN FALSE ELSE session
            /\ Commit("false", LoginPath)
            /\ Replace(LoginUrl)
            /\ logoutTimers' = logoutTimers + 1
    /\ UNCHANGED <<alertsVars, lastCheck, env, resp, gateVars, fetchVars, justLoggedIn, isLoggingOut,
                   loginCall, clearTimers, checks, mounted, sessionCalls, refreshCalls>>

\* setTimeout(() => { isLoggingOutRef.current = false }, 1000) fires.
ClearIsLoggingOut ==
    /\ logoutTimers > 0
    /\ logoutTimers' = logoutTimers - 1
    /\ isLoggingOut' = FALSE
    /\ UNCHANGED <<alertsVars, lastCheck, serverVars, gateVars, fetchVars, isAuthenticated, justLoggedIn,
                   pathname, nav, loginCall, clearTimers, checks, mounted, intervals,
                   initialCheck, sessionCalls, refreshCalls, logoutCalls>>

\* The provider is torn down: the cleanups of both effects run. Teardown is
\* taken here when no call of the controller and none of its timeouts is
\* outstanding.
Unmount ==
    /\ mounted
    /\ InFlight = 0 /\ clearTimers = 0
    /\ loginCall.pc \notin {"fetching", "checking"}
    /\ mounted' = FALSE
    /\ intervals' = IF isAuthenticated = "true" THEN ClearIntervals(intervals) ELSE intervals
    /\ initialCheck' = FALSE
    /\ UNCHANGED <<alertsVars, lastCheck, serverVars, gateVars, fetchVars, isAuthenticated, justLoggedIn,
                   isLoggingOut, pathname, nav, loginCall, clearTimers, checks,
                   sessionCalls, refreshCalls, logoutCalls, logoutTimers>>

(***************************************************************************)
(* Authenticated Fetch Wrapper: fetch.ts                                   *)
(***************************************************************************)

\* authFetch calls that can be in progress together, and resetRedirectFlag
\* calls in one page lifetime.
MaxFetch == 2
MaxResets == 1

FetchSlots == 1..MaxFetch

\* Statuses of the responses authFetch receives.
FetchStatuses == {200, 401, 500}

\* encodeURIComponent, on the characters that occur in the paths used here.
RECURSIVE EncodeURIComponent(_)
EncodeURIComponent(p) ==
    IF p = <<>> THEN <<>>
    ELSE (CASE Head(p) = "/" -> <<"%", "2", "F">>
            [] Head(p) = "?" -> <<"%", "3", "F">>
            [] Head(p) = "%" -> <<"%", "2", "5">>
            [] OTHER -> <<Head(p)>>) \o EncodeURIComponent(Tail(p))

\* Mutant of SessionExpiredHref: the URL of checkSession's redirect, which
\* has no `next` parameter.
SessionExpiredHref_NoNext(currentPath) ==
    <<"/", "l", "o", "g", "i", "n", "?", "r", "e", "a", "s", "o", "n", "=",
      "s", "e", "s", "s", "i", "o", "n", "_", "e", "x", "p", "i", "r", "e", "d">>

\* `/login?reason=session_expired&next=${encodeURIComponent(currentPath)}`
SessionExpiredHref(currentPath) ==
    <<"/", "l", "o", "g", "i", "n", "?", "r", "e", "a", "s", "o", "n", "=",
      "s", "e", "s", "s", "i", "o", "n", "_", "e", "x", "p", "i", "r", "e", "d",
      "&", "n", "e", "x", "t", "=">> \o EncodeURIComponent(currentPath)

\* The pathname of a relative URL: what precedes the query string.
RECURSIVE PathnameOf(_)
PathnameOf(href) ==
    IF href = <<>> \/ Head(href) = "?" THEN <<>>
    ELSE <<Head(href)>> \o PathnameOf(Tail(href))

\* Mutant of LatchOnEntry: the flag is not set when the 401 is handled.
LatchOnEntry_NotSet(flag) == flag

\* isRedirecting = true, the statement that follows the test of the flag.
LatchOnEntry(flag) == TRUE

NewPage(window) ==
    [window |-> window, got401 |-> FALSE, started |-> 0, logouts |-> 0,
     resets |-> 0, href |-> None]

Idle == [pc |-> "idle"]

\* authFetch(input, init): the request is sent.
AuthFetchStart(i) ==
    /\ fetches[i].pc \in {"idle", "returned", "threw"}
    /\ fetches' = [fetches EXCEPT ![i] = [pc |-> "fetching"]]
    /\ UNCHANGED <<alertsVars, serverVars, gateVars, clientVars, isRedirecting, page>>

\* authFetch: fetch rejects, and so does authFetch.
AuthFetchThrows(i) ==
    /\ fetches[i].pc = "fetching"
    /\ fetches' = [fetches EXCEPT ![i] = [pc |-> "threw"]]
    /\ UNCHANGED <<alertsVars, serverVars, gateVars, clientVars, isRedirecting, page>>

\* authFetch: the response arrives. On a 401 with the flag clear the flag
\* is set and, in a browser, POST /api/logout is sent; otherwise the
\* response is returned.
AuthFetchResponse(i, status) ==
    /\ fetches[i].pc = "fetching"
    /\ IF status = 401 /\ ~isRedirecting
       THEN /\ isRedirecting' = LatchOnEntry(isRedirecting)
            /\ IF page.window
               THEN /\ fetches' = [fetches EXCEPT ![i] = [pc |-> "logout", status |-> status]]
                    /\ page' = [page EXCEPT !.got401 = TRUE, !.started = @ + 1,
                                            !.logouts = @ + 1]
               ELSE /\ fetches' = [fetches EXCEPT ![i] = [pc |-> "returned", status |-> status]]
                    /\ page' = [page EXCEPT !.got401 = TRUE]
       ELSE /\ fetches' = [fetches EXCEPT ![i] = [pc |-> "returned", status |-> status]]
            /\ page' = [page EXCEPT !.got401 = @ \/ status = 401]
            /\ UNCHANGED isRedirecting
    /\ UNCHANGED <<alertsVars, serverVars, gateVars, clientVars>>

\* authFetch: POST /api/logout completes or fails (the error is swallowed),
\* window.location.href is assigned and the original response returned.
AuthFetchLogoutDone(i, via) ==
    /\ fetches[i].pc = "logout"
    /\ cookie' = IF via = "bff" THEN ApplyCookie(cookie, LogoutPOST.cookieOp) ELSE cookie
    /\ session' = IF via = "bff" THEN FALSE ELSE session
    /\ page' = [page EXCEPT !.href = Some(SessionExpiredHref(pathname))]
    /\ fetches' = [fetches EXCEPT ![i] = [pc |-> "returned", status |-> fetches[i].status]]
    /\ UNCHANGED <<alertsVars, env, resp, gateVars, clientVars, isRedirecting>>

resetRedirectFlag ==
    /\ page.resets < MaxResets
    /\ isRedirecting' = FALSE
    /\ page' = [page EXCEPT !.resets = @ + 1]
    /\ UNCHANGED <<alertsVars, serverVars, gateVars, clientVars, fetches>>

\* The hard navigation takes effect: the document is replaced, the module
\* is loaded anew and the calls of the old page are gone.
PageLoad ==
    /\ page.href # None
    /\ pathname' = PathnameOf(page.href[1])
    /\ isRedirecting' = FALSE
    /\ fetches' = [i \in FetchSlots |-> Idle]
    /\ page' = NewPage(page.window)
    /\ UNCHANGED <<alertsVars, serverVars, gateVars, isAuthenticated, justLoggedIn, isLoggingOut,
                   nav, loginCall, clearTimers, checks, providerVars>>

(***************************************************************************)
(* AlertsPage: the effect that loads the alert list                        *)
(***************************************************************************)

\* useState(10) and the "Load more" button's setLimit((l) => l + 10).
InitialLimit == 10
LimitStep == 10

\* Runs of the effect over the page's lifetimes taken into account.
MaxEffects == 3

\* How many alerts the list endpoint has to give.
AlertTotals == {0, 15, 25}

\* What `await r.json()` gives for /api/alerts?limit=l: an object whose
\* `alerts` is an array of at most l alerts, an object without an `alerts`
\* array, null, or a rejection (the body is not JSON).
AlertList(l, total) == [k \in 1..(IF l < total THEN l ELSE total) |-> k]

AlertBodies(l) ==
    {[kind |-> "list", alerts |-> AlertList(l, total)] : total \in AlertTotals}
        \cup {[kind |-> kind, alerts |-> <<>>] : kind \in {"object", "null", "throws"}}

\* Array.isArray(d?.alerts) ? d.alerts : []
AlertsOf(d) == IF d.kind = "list" THEN d.alerts ELSE <<>>

MaySet_IgnoresCancelled(run) == TRUE

\* if (!cancelled) ...: the guard on each setter of the effect.
MaySet(run) ==
    ~run.cancelled

\* The effect's cleanup: cancelled = true; controller.abort(). It acts on
\* the run of the effect that was the last to start.
Cleanup(runs) ==
    [i \in DOMAIN runs |->
        IF i = Len(runs) THEN [runs[i] EXCEPT !.cancelled = TRUE] ELSE runs[i]]

\* The effect's body up to its first await: a new `cancelled`, setLoading(true)
\* and the request for the limit of this render.
RunEffect(runs, l) ==
    /\ loading' = TRUE
    /\ effects' = Append(runs, [limit |-> l, cancelled |-> FALSE, pc |-> "fetching"])

\* The page is mounted: state starts from the useState defaults and the
\* effect runs for the first time.
AlertsPageMount ==
    /\ ~alertsMounted
    /\ Len(effects) < MaxEffects
    /\ alertsMounted' = TRUE
    /\ alerts' = <<>>
    /\ limit' = InitialLimit
    /\ RunEffect(effects, InitialLimit)
    /\ UNCHANGED <<serverVars, gateVars, clientVars, fetchVars>>

\* "Load more": the limit grows, and with the dependency changed React runs
\* the cleanup of the previous run and then the effect again.
LoadMore ==
    /\ alertsMounted
    /\ Len(effects) < MaxEffects
    /\ limit' = limit + LimitStep
    /\ RunEffect(Cleanup(effects), limit + LimitStep)
    /\ UNCHANGED <<serverVars, gateVars, clientVars, fetchVars, alerts, alertsMounted>>

\* `await fetch(...)` of run i settles: with a response, and the run goes on
\* to read its body, or with a rejection (network error, abort), and the run
\* goes through catch and finally. What the run does next depends on its
\* own `cancelled` only, so no outcome is excluded for a cancelled run.
AlertsFetchSettles(i, outcome) ==
    /\ effects[i].pc = "fetching"
    /\ IF outcome = "response"
       THEN /\ effects' = [effects EXCEPT ![i].pc = "parsing"]
            /\ UNCHANGED loading
       ELSE /\ effects' = [effects EXCEPT ![i].pc = "done"]
            /\ loading' = IF MaySet(effects[i]) THEN FALSE ELSE loading
    /\ UNCHANGED <<serverVars, gateVars, clientVars, fetchVars, alerts, limit, alertsMounted>>

\* `await r.json()` of run i settles with d: setAlerts and, in finally,
\* setLoading(false), each only if the run is not cancelled.
AlertsJsonSettles(i, d) ==
    /\ effects[i].pc = "parsing"
    /\ effects' = [effects EXCEPT ![i].pc = "done"]
    /\ alerts' = IF d.kind # "throws" /\ MaySet(effects[i]) THEN AlertsOf(d) ELSE alerts
    /\ loading' = IF MaySet(effects[i]) THEN FALSE ELSE loading
    /\ UNCHANGED <<serverVars, gateVars, clientVars, fetchVars, limit, alertsMounted>>

\* The page is left: the cleanup of the last run of the effect.
AlertsPageUnmount ==
    /\ alertsMounted
    /\ alertsMounted' = FALSE
    /\ effects' = Cleanup(effects)
    /\ UNCHANGED <<serverVars, gateVars, clientVars, fetchVars, alerts, limit, loading>>

InitAlerts ==
    /\ alerts = <<>>
    /\ limit = InitialLimit
    /\ loading = FALSE
    /\ alertsMounted = FALSE
    /\ effects = <<>>

(***************************************************************************)
(* Specifications                                                          *)
(***************************************************************************)

InitClient ==
    /\ isAuthenticated = "null"
    /\ justLoggedIn = FALSE
    /\ isLoggingOut = FALSE
    /\ pathname = LoginPath
    /\ nav = None
    /\ loginCall = [pc |-> "idle"]
    /\ clearTimers = 0
    /\ checks = 0
    /\ mounted = TRUE
    /\ intervals = NoIntervals
    /\ initialCheck = TRUE
    /\ sessionCalls = EmptyBag
    /\ refreshCalls = EmptyBag
    /\ logoutCalls = 0
    /\ logoutTimers = 0
    /\ lastCheck = NoCheck

InitFetch ==
    /\ isRedirecting = FALSE
    /\ fetches = [i \in FetchSlots |-> Idle]
    /\ page = NewPage(TRUE)

Init ==
    /\ env \in Envs
    /\ cookie = NoCookie
    /\ gate = NoGate
    /\ resp = NoResp
    /\ session = FALSE
    /\ InitClient
    /\ InitFetch
    /\ InitAlerts

DefaultEnv ==
    [refresh |-> FALSE, validate |-> FALSE, base |-> FALSE,
     production |-> FALSE, forceHttps |-> FALSE]

\* The Route Gate alone, over every request. The gate reads no environment
\* variable: the environment is the default one (no flag set, no base).
InitGate ==
    /\ env = DefaultEnv
    /\ cookie = NoCookie
    /\ gate = NoGate
    /\ resp = NoResp
    /\ session = FALSE
    /\ InitClient
    /\ InitFetch
    /\ InitAlerts

NextGate == \E req \in Requests : Gate(req)

SpecGate == InitGate /\ [][NextGate]_vars

\* The client controller's login against the BFF routes.
NextClient ==
    \/ \E email \in {"", "a@b.c"}, password \in {"", "pw"} : LoginStart(email, password)
    \/ \E via \in Transports, up \in Upstreams : LoginResponse(via, up)
    \/ \E via \in Transports, impl \in SessionRoutes, up \in ValidateUpstreams :
          LoginCheckDone(via, impl, up)
    \/ ClearJustLoggedIn
    \/ \E path \in {LoginPath, DefaultLanding} : Navigate(path)

SpecClient == Init /\ [][NextClient]_vars

\* authFetch calls of a page of the dashboard, with or without a session
\* cookie. authFetch reads no environment variable.
InitAuthFetch ==
    /\ env = DefaultEnv
    /\ cookie \in {NoCookie, LoginCookie("t1", DefaultEnv)}
    /\ session = cookie.present
    /\ gate = NoGate
    /\ resp = NoResp
    /\ isAuthenticated = "null"
    /\ justLoggedIn = FALSE
    /\ isLoggingOut = FALSE
    /\ pathname = DefaultLanding
    /\ nav = None
    /\ loginCall = [pc |-> "idle"]
    /\ clearTimers = 0
    /\ checks = 0
    /\ mounted = TRUE
    /\ intervals = NoIntervals
    /\ initialCheck = TRUE
    /\ sessionCalls = EmptyBag
    /\ refreshCalls = EmptyBag
    /\ logoutCalls = 0
    /\ logoutTimers = 0
    /\ lastCheck = NoCheck
    /\ isRedirecting = FALSE
    /\ fetches = [i \in FetchSlots |-> Idle]
    /\ page \in {NewPage(w) : w \in BOOLEAN}
    /\ InitAlerts

NextFetch ==
    \/ \E i \in FetchSlots : AuthFetchStart(i)
    \/ \E i \in FetchSlots : AuthFetchThrows(i)
    \/ \E i \in FetchSlots, status \in FetchStatuses : AuthFetchResponse(i, status)
    \/ \E i \in FetchSlots, via \in {"bff", "throws"} : AuthFetchLogoutDone(i, via)
    \/ resetRedirectFlag
    \/ PageLoad
    \/ \E path \in {DefaultLanding, Decisions, QueryLike} : Navigate(path)

SpecFetch == InitAuthFetch /\ [][NextFetch]_vars

\* The client session controller over its lifetime: mount, timers, login,
\* logout, navigation, teardown. Validation and refresh are enabled and a
\* base is configured, so that every answer the session and refresh routes
\* can give is among the outcomes; the visitor arrives with a session cookie.
ProviderEnv ==
    [refresh |-> TRUE, validate |-> TRUE, base |-> TRUE,
     production |-> FALSE, forceHttps |-> FALSE]

ProviderPaths == {LoginPath, DefaultLanding}

\* Upstream outcomes that tell the controller's cases apart.
ProviderUpstreams ==
    { Throws,
      [kind |-> "response", status |-> 200,
       body |-> Body("{accessToken:t2}", "obj", "t2", Undefined)],
      [kind |-> "response", status |-> 403,
       body |-> Body("{error:Invalid email or password}", "obj", Undefined,
                     "Invalid email or password")] }

ProviderValidations ==
    { Throws,
      [kind |-> "response", status |-> 200,
       body |-> Body("", "invalid", Undefined, Undefined)],
      [kind |-> "response", status |-> 403,
       body |-> Body("", "invalid", Undefined, Undefined)] }

InitProvider ==
    /\ env = ProviderEnv
    /\ cookie = LoginCookie("t1", ProviderEnv)
    /\ session = TRUE
    /\ gate = NoGate
    /\ resp = NoResp
    /\ InitClient
    /\ InitFetch
    /\ InitAlerts

NextProvider ==
    \/ InitialSessionCheck
    \/ PeriodicSessionCheck
    \/ PeriodicTokenRefresh
    \/ ContextCheckSession
    \/ \E path \in ProviderPaths, via \in Transports, impl \in SessionRoutes,
          up \in ProviderValidations : SessionCheckDone(path, via, impl, up)
    \/ \E path \in ProviderPaths, via \in Transports, up \in ProviderUpstreams :
          RefreshTokenDone(path, via, up)
    \/ LoginStart("a@b.c", "pw")
    \/ \E up \in ProviderUpstreams : LoginResponse("bff", up)
    \/ \E via \in Transports, impl \in SessionRoutes, up \in ProviderValidations :
          LoginCheckDone(via, impl, up)
    \/ ClearJustLoggedIn
    \/ LogoutStart
    \/ \E via \in Transports : LogoutSettles(via)
    \/ ClearIsLoggingOut
    \/ \E path \in ProviderPaths : Navigate(path)
    \/ Unmount

SpecProvider == InitProvider /\ [][NextProvider]_vars

\* The BFF routes against the browser's cookie.
NextBff ==
    \/ \E body \in LoginBodies, up \in Upstreams : BffLogin(body, up)
    \/ \E up \in ValidateUpstreams : BffSession(up)
    \/ BffSessionRoute
    \/ \E up \in Upstreams : BffRefresh(up)
    \/ \E up \in Upstreams : BffDecisions(up)
    \/ BffLogout
    \/ \E v \in {"", "forged"} : BrowserSetsCookie(v)

SpecBff == Init /\ [][NextBff]_vars

\* The controller from mount on, without login and logout calls: the
\* initial check, the timers, navigation, teardown. A timeout that is due
\* fires, and every request sent is eventually answered or fails.
InitMount ==
    /\ env = ProviderEnv
    /\ cookie \in {NoCookie, LoginCookie("t1", ProviderEnv)}
    /\ session = cookie.present
    /\ gate = NoGate
    /\ resp = NoResp
    /\ InitClient
    /\ InitFetch
    /\ InitAlerts

SessionCheckSettles ==
    \E path \in ProviderPaths, via \in Transports, impl \in SessionRoutes,
       up \in ProviderValidations : SessionCheckDone(path, via, impl, up)

RefreshTokenSettles ==
    \E path \in ProviderPaths, via \in Transports, up \in ProviderUpstreams :
       RefreshTokenDone(path, via, up)

NextMount ==
    \/ InitialSessionCheck
    \/ PeriodicSessionCheck
    \/ PeriodicTokenRefresh
    \/ ContextCheckSession
    \/ SessionCheckSettles
    \/ RefreshTokenSettles
    \/ \E path \in ProviderPaths : Navigate(path)
    \/ Unmount

SpecMount ==
    /\ InitMount /\ [][NextMount]_vars
    /\ WF_vars(InitialSessionCheck)
    /\ WF_vars(SessionCheckSettles)
    /\ WF_vars(RefreshTokenSettles)

\* The controller's login and logout calls and their latches. Every request
\* sent is eventually answered or fails, and a timeout that has been set
\* eventually fires.
LoginResponseSettles == \E up \in ProviderUpstreams : LoginResponse("bff", up)

LoginCheckSettles ==
    \E via \in Transports, impl \in SessionRoutes, up \in ProviderValidations :
       LoginCheckDone(via, impl, up)

LogoutRequestSettles == \E via \in Transports : LogoutSettles(via)

NextLatches ==
    \/ LoginStart("a@b.c", "pw")
    \/ LoginResponseSettles
    \/ LoginCheckSettles
    \/ ClearJustLoggedIn
    \/ LogoutStart
    \/ LogoutRequestSettles
    \/ ClearIsLoggingOut
    \/ \E path \in ProviderPaths : Navigate(path)

SpecLatches ==
    /\ InitProvider /\ [][NextLatches]_vars
    /\ WF_vars(LoginResponseSettles)
    /\ WF_vars(LoginCheckSettles)
    /\ WF_vars(ClearJustLoggedIn)
    /\ WF_vars(LogoutRequestSettles)
    /\ WF_vars(ClearIsLoggingOut)

\* The BFF routes as a browser reaches them: through the gate.
NextGated ==
    \/ \E route \in GatedRoutes, body \in LoginBodies \cup {NoBody}, up \in Upstreams :
          GatedRequest(route, body, up)
    \/ \E v \in {"", "forged"} : BrowserSetsCookie(v)

SpecGated == Init /\ [][NextGated]_vars

\* The alerts page alone: mounting, "Load more", the requests of the effect
\* settling in any order, leaving the page.
InitAlertsPage ==
    /\ env = DefaultEnv
    /\ cookie = NoCookie
    /\ gate = NoGate
    /\ resp = NoResp
    /\ session = FALSE
    /\ InitClient
    /\ InitFetch
    /\ InitAlerts

NextAlerts ==
    \/ AlertsPageMount
    \/ LoadMore
    \/ \E i \in DOMAIN effects, outcome \in {"response", "rejects"} : AlertsFetchSettles(i, outcome)
    \/ \E i \in DOMAIN effects : \E d \in AlertBodies(effects[i].limit) : AlertsJsonSettles(i, d)
    \/ AlertsPageUnmount

SpecAlerts == InitAlertsPage /\ [][NextAlerts]_vars


(***************************************************************************)
(* Claims about the Route Gate (SpecGate)                                  *)
(***************************************************************************)

\* The paths of RequestPaths that are protected: neither the login screen,
\* nor a static asset, nor a BFF auth route marked public.
ProtectedPaths == {Root, DefaultLanding, Decisions, ApiRefresh, ApiDecision}

\* C1: a request to a protected path that carries no auth_token cookie is
\* redirected to /login with `next` equal to the request's path, and is
\* never passed through.
C1_ProtectedWithoutCookieRedirects ==
    (gate.res.kind # "none" /\ gate.req.pathname \in ProtectedPaths
        /\ gate.req.token = Undefined)
    => /\ gate.res.kind = "redirect"
       /\ gate.res.pathname = LoginPath
       /\ gate.res.next = Some(gate.req.pathname)

C1_Witness ==
    /\ gate.req.pathname = ApiDecision
    /\ gate.req.token = Undefined
    /\ gate.req.next = Some(Decisions)
    /\ gate.res.kind = "redirect"
    /\ gate.res.next = Some(ApiDecision)

\* The `next` values that are a path as it stands: absolute, and with no
\* character the URL pathname setter rewrites.
PlainNextPaths == {DefaultLanding, Decisions, LoginPath}

\* C2: a request to /login that carries a (non-empty) auth_token cookie is
\* redirected, never passed through; the redirect has no query string; its
\* path is the `next` parameter's, or /alerts when `next` is absent. (An
\* empty `next` counts as absent; a `next` without a leading slash gets one;
\* "?" in `next` is percent-encoded, so it cannot reintroduce a query.)
C2_LoginWithCookieRedirects ==
    (gate.res.kind # "none" /\ gate.req.pathname = LoginPath
        /\ gate.req.token \notin {Undefined, ""})
    => /\ gate.res.kind = "redirect"
       /\ gate.res.next = None /\ gate.res.reason = None
       /\ gate.req.next = None => gate.res.pathname = DefaultLanding
       /\ \A p \in PlainNextPaths :
            gate.req.next = Some(p) => gate.res.pathname = p
       /\ gate.req.next = Some(<<>>) => gate.res.pathname = DefaultLanding
       /\ gate.req.next = Some(RelAlerts) => gate.res.pathname = DefaultLanding
       /\ \A i \in 1..Len(gate.res.pathname) : gate.res.pathname[i] # "?"

C2_Witness ==
    /\ gate.req.pathname = LoginPath
    /\ gate.req.token = "t1"
    /\ gate.req.next = Some(Decisions)
    /\ gate.req.reason = Some("session_expired")
    /\ gate.res = Redirect(Decisions, None, None)


(***************************************************************************)
(* Claims about the BFF routes (SpecBff)                                   *)
(***************************************************************************)

SoftFailure == [success |-> TRUE, refreshed |-> FALSE]

\* The last exchange was a login with credentials present that upstream
\* answered 2xx with a body carrying a non-empty accessToken.
LoginAccepted ==
    /\ resp.route = "login"
    /\ Truthy(resp.body.email) /\ Truthy(resp.body.password)
    /\ resp.up.kind = "response" /\ Ok(resp.up.status)
    /\ resp.up.body.json = "obj" /\ Truthy(resp.up.body.accessToken)

\* Such a login writes the cookie exactly once, with the token upstream
\* issued, and answers 200 {success:true}.
LoginWritesToken ==
    LoginAccepted
    => /\ Writes(resp.res.cookieOp) = 1
       /\ resp.res.cookieOp.cookie.value = resp.up.body.accessToken
       /\ cookie.present /\ cookie.value = resp.up.body.accessToken
       /\ resp.res.status = 200
       /\ resp.res.body = [success |-> TRUE]

\* The session check's own upstream validation rejected the token.
RejectedByValidate ==
    resp.route = "session" /\ resp.up.kind = "response" /\ ~Ok(resp.up.status)

\* C3 (as claimed): a login accepted by upstream writes the cookie exactly
\* once with the issued token and answers 200 {success:true}, and a session
\* check issued afterwards, with no logout and no validate rejection in
\* between, returns {authenticated:true}.
C3_Original ==
    /\ LoginWritesToken
    /\ (resp.route \in SessionRoutes /\ resp.session)
       => resp.res.body = [authenticated |-> TRUE]

\* C3 (amended): ... a session check issued afterwards returns
\* {authenticated:true} unless that check itself is rejected by the upstream
\* validate endpoint (validate mode, base configured, non-2xx), in which
\* case it returns 401 {authenticated:false} and deletes the cookie.
C3_LoginThenSession ==
    /\ LoginWritesToken
    /\ (resp.route \in SessionRoutes /\ resp.session /\ ~RejectedByValidate)
       => (resp.res.body = [authenticated |-> TRUE] /\ resp.res.status = 200
           /\ cookie = resp.before)
    /\ (resp.route \in SessionRoutes /\ resp.session /\ RejectedByValidate)
       => (resp.res.body = [authenticated |-> FALSE] /\ resp.res.status = 401
           /\ ~cookie.present /\ env.validate /\ env.base)

C3_Witness ==
    /\ resp.route = "session" /\ resp.session
    /\ env.validate /\ env.base
    /\ resp.up.kind = "response" /\ Ok(resp.up.status)
    /\ resp.res.body = [authenticated |-> TRUE]
    /\ cookie.present /\ cookie.value = "t1" /\ cookie.httpOnly

\* C5: after the logout operation no auth_token cookie exists, whatever the
\* state before; a second logout leaves the state of the first unchanged.
C5_LogoutClearsCookie ==
    resp.route = "logout"
    => /\ ~cookie.present
       /\ ApplyCookie(cookie, LogoutPOST.cookieOp) = cookie
       /\ resp.res.status = 200

C5_Witness ==
    /\ resp.route = "logout"
    /\ resp.before.present /\ resp.before.value = "t2"
    /\ ~cookie.present

\* C7: with backend refresh disabled and the cookie present, the refresh
\* route calls no upstream, leaves the cookie as it was, and answers
\* 200 {success:true, refreshed:false}.
C7_RefreshDisabled ==
    (resp.route = "refresh" /\ ~env.refresh /\ Truthy(resp.token))
    => /\ resp.up = NotCalled
       /\ resp.res.cookieOp = Keep
       /\ cookie = resp.before
       /\ resp.res.status = 200
       /\ resp.res.body = SoftFailure

C7_Witness ==
    /\ resp.route = "refresh" /\ ~env.refresh /\ env.base
    /\ resp.token = "t1"
    /\ cookie.present /\ cookie.value = "t1"
    /\ resp.res.body = SoftFailure

\* The refresh's upstream call failed: it threw, answered non-2xx, or
\* answered 2xx with a body that does not parse.
RefreshFailed ==
    \/ resp.up.kind = "throws"
    \/ resp.up.kind = "response" /\ ~Ok(resp.up.status)
    \/ resp.up.kind = "response" /\ resp.up.body.json = "invalid"

\* C8: with the cookie present and backend refresh enabled, every failed
\* refresh leaves the cookie exactly as it was and answers
\* 200 {success:true, refreshed:false}; the refresh route never deletes the
\* cookie.
C8_RefreshFailureKeepsCookie ==
    /\ (resp.route = "refresh" /\ env.refresh /\ Truthy(resp.token) /\ RefreshFailed)
       => /\ cookie = resp.before
          /\ resp.res.cookieOp = Keep
          /\ resp.res.status = 200
          /\ resp.res.body = SoftFailure
    /\ resp.route = "refresh"
       => (resp.res.cookieOp.op # "delete" /\ (resp.before.present => cookie.present))

C8_Witness ==
    /\ resp.route = "refresh" /\ env.refresh /\ env.base
    /\ resp.token = "t1"
    /\ resp.up.kind = "response" /\ resp.up.status = 403
    /\ resp.up.body.accessToken = "t2"
    /\ cookie.present /\ cookie.value = "t1"

\* C9: in simple mode (backend validation not enabled) the session check
\* returns {authenticated:true} for every non-empty cookie value, whatever
\* the value, and calls no upstream.
C9_SimpleModePresenceOnly ==
    (resp.route \in SessionRoutes /\ ~env.validate /\ Truthy(resp.token))
    => /\ resp.res.body = [authenticated |-> TRUE]
       /\ resp.up = NotCalled
       /\ cookie = resp.before

C9_Witness ==
    /\ resp.route = "session" /\ ~env.validate /\ env.base
    /\ resp.token = "forged"
    /\ resp.res.body = [authenticated |-> TRUE]

\* C10: with no auth_token cookie the session check returns
\* {authenticated:false} with status 401, in every mode.
C10_NoCookieIs401 ==
    (resp.route \in SessionRoutes /\ resp.token = Undefined)
    => /\ resp.res.body = [authenticated |-> FALSE]
       /\ resp.res.status = 401


(***************************************************************************)
(* Claims about the client controller (SpecClient)                         *)
(***************************************************************************)

\* The step in which login() learns that upstream answered the login
\* exchange with a non-2xx status.
UpstreamRefusedLogin ==
    /\ loginCall.pc = "fetching" /\ loginCall'.pc # "fetching"
    /\ loginCall'.via = "bff"
    /\ loginCall'.up.kind = "response" /\ ~Ok(loginCall'.up.status)

\* C4: when upstream answers the login exchange with a non-2xx status, the
\* login route writes no cookie (a cookie already present keeps its value),
\* login() rejects with the server's `error` field as message, or "Login
\* failed" when the field is absent, the authentication flag is unchanged
\* and no session check is issued.
C4_RefusedLoginRejects ==
    [][UpstreamRefusedLogin
       => /\ loginCall'.res.cookieOp = Keep
          /\ cookie' = cookie
          /\ loginCall'.pc = "rejected"
          /\ loginCall'.res.status = 401
          /\ loginCall'.error =
                (IF "error" \in DOMAIN loginCall'.res.body
                       /\ loginCall'.res.body.error \notin {Undefined, ""}
                 THEN loginCall'.res.body.error ELSE "Login failed")
          /\ isAuthenticated' = isAuthenticated
          /\ checks' = checks
          /\ justLoggedIn' = justLoggedIn]_vars

C4_Witness ==
    /\ loginCall.pc = "rejected" /\ loginCall.via = "bff"
    /\ loginCall.up.kind = "response" /\ loginCall.up.status = 429
    /\ loginCall.error = "Invalid email or password"
    /\ cookie.present /\ cookie.value = "t2"
    /\ isAuthenticated = "true"
    /\ checks = 1


(***************************************************************************)
(* Claims about the fetch wrapper (SpecFetch)                              *)
(***************************************************************************)

\* The slots whose authFetch call is inside the forced logout+redirect
\* sequence (awaiting POST /api/logout).
InSequence == {i \in FetchSlots : fetches[i].pc = "logout"}

\* C6: whatever the number and interleaving of 401 responses in one page
\* lifetime, the forced logout+redirect sequence is started exactly once
\* (once more per resetRedirectFlag call at most): never twice, and once as
\* soon as a 401 has been handled in a browser; the flag, once set, is
\* cleared only by resetRedirectFlag (or by the page being replaced).
C6_SingleFlight ==
    /\ [](/\ page.started <= page.resets + 1
          /\ page.logouts = page.started
          /\ (page.resets = 0 => Cardinality(InSequence) <= 1)
          /\ (page.window /\ page.got401) => page.started >= 1
          /\ (page.got401 /\ page.resets = 0) => isRedirecting
          /\ page.href # None => page.started >= 1)
    /\ [][(isRedirecting /\ ~isRedirecting')
          => (page'.resets = page.resets + 1 \/ (page.href # None /\ page'.href = None))]_vars

\* Two calls have received a 401 in the same page lifetime, one of them is
\* in the sequence, the other returned its response.
C6_Witness ==
    /\ page.window /\ page.resets = 0 /\ page.started = 1
    /\ fetches[1].pc = "returned" /\ fetches[1].status = 401
    /\ fetches[2].pc = "logout"
    /\ isRedirecting

(***************************************************************************)
(* Claims about the session check's upstream validation (SpecBff)          *)
(***************************************************************************)

\* A session check that went to the upstream validate endpoint: validation
\* enabled, a base configured, a cookie with a token.
ValidatedCheck ==
    /\ resp.route = "session"
    /\ env.validate /\ env.base
    /\ Truthy(resp.token)

\* C11: in validate mode with a base configured, an upstream validate answer
\* that is not 2xx makes the session check delete the auth_token cookie and
\* return {authenticated:false} with status 401; a 2xx answer makes it return
\* {authenticated:true} and leave the cookie unchanged.
C11_ValidateDecides ==
    (ValidatedCheck /\ resp.up.kind = "response")
    => IF Ok(resp.up.status)
       THEN /\ resp.res.status = 200
            /\ resp.res.body = [authenticated |-> TRUE]
            /\ resp.res.cookieOp = Keep
            /\ cookie = resp.before
       ELSE /\ resp.res.status = 401
            /\ resp.res.body = [authenticated |-> FALSE]
            /\ resp.res.cookieOp = DeleteCookie
            /\ cookie = NoCookie

C11_Witness ==
    /\ ValidatedCheck
    /\ resp.up.kind = "response" /\ resp.up.status = 403
    /\ resp.before.present /\ resp.before.value = "t1"
    /\ cookie = NoCookie

\* C12: in validate mode, a validate call that throws (network failure) makes
\* the session check fail open: {authenticated:true}, cookie neither deleted
\* nor changed.
C12_ValidateFailsOpen ==
    (ValidatedCheck /\ resp.up = Throws)
    => /\ resp.res.status = 200
       /\ resp.res.body = [authenticated |-> TRUE]
       /\ resp.res.cookieOp = Keep
       /\ cookie = resp.before

C12_Witness ==
    /\ ValidatedCheck
    /\ resp.up = Throws
    /\ resp.res.body = [authenticated |-> TRUE]
    /\ cookie.present /\ cookie.value = "t2"

(***************************************************************************)
(* Claims about the refresh route's cookie (SpecBff)                       *)
(***************************************************************************)

\* A refresh that succeeded: enabled, base configured, a cookie with a token,
\* upstream 2xx with a new accessToken.
RefreshSucceeded ==
    /\ resp.route = "refresh"
    /\ env.refresh /\ env.base
    /\ Truthy(resp.token)
    /\ resp.up.kind = "response" /\ Ok(resp.up.status)
    /\ resp.up.body.json # "invalid"
    /\ Truthy(AccessTokenOf(resp.up.body))

\* C13: a successful refresh overwrites the auth_token cookie with the new
\* token, using the attribute set the login route writes under the same
\* environment (httpOnly, sameSite lax, path /, secure, maxAge 7 days), and
\* returns {success:true, refreshed:true}.
C13_RefreshSameAttributes ==
    RefreshSucceeded
    => /\ resp.res.body = [success |-> TRUE, refreshed |-> TRUE]
       /\ cookie = LoginCookie(AccessTokenOf(resp.up.body), env)

(***************************************************************************)
(* Claims about the client session controller (SpecProvider)               *)
(***************************************************************************)

\* C14: logout() always ends with the authentication flag unauthenticated
\* and a navigation to /login, whether the call to the BFF logout route
\* succeeds or fails, a network-level failure of the call included.
C14_LogoutAlwaysEnds ==
    [][(mounted /\ logoutCalls' < logoutCalls)
       => /\ isAuthenticated' = "false"
          /\ nav' = Some(LoginUrl)
          /\ pathname' = LoginPath]_vars

\* A checkSession call completes in this step: one of those in flight, or
\* the one login() awaits.
CheckCompletes ==
    \/ BagCardinality(sessionCalls') < BagCardinality(sessionCalls)
    \/ loginCall.pc = "checking" /\ loginCall'.pc = "resolved"

\* C15: the authentication flag is unknown (null) only until the first
\* session check or logout completes; once it holds a boolean it never
\* returns to unknown, whatever login, logout, checkSession and refreshToken
\* calls follow; and after every completed session check it equals that
\* check's result.
C15_FlagResolves ==
    /\ [](isAuthenticated = "null" => lastCheck = NoCheck)
    /\ [][/\ isAuthenticated # "null" => isAuthenticated' # "null"
          /\ CheckCompletes
             => isAuthenticated' =
                   (IF lastCheck'.answer = "authenticated" THEN "true" ELSE "false")
          /\ logoutTimers' > logoutTimers => isAuthenticated' = "false"]_vars

C15_Witness ==
    /\ isAuthenticated = "false"
    /\ lastCheck.answer = "threw"
    /\ loginCall.pc = "resolved"
    /\ checks = 2

\* C16: the two periodic timers exist only while the flag is authenticated:
\* they are started on the transition into authenticated, there is at most
\* one of each, and both are canceled when the flag becomes false, when
\* logout starts and on teardown, so that no periodic check can fire while
\* the flag is false or unknown.
C16_TimersOnlyWhileAuthenticated ==
    /\ [](/\ intervals.session <= 1 /\ intervals.refresh <= 1
          /\ intervals.session = (IF intervals.sessionCheckIntervalRef THEN 1 ELSE 0)
          /\ intervals.refresh = (IF intervals.refreshIntervalRef THEN 1 ELSE 0)
          /\ (intervals.session > 0 \/ intervals.refresh > 0)
             => (isAuthenticated = "true" /\ mounted))
    /\ [][/\ (isAuthenticated # "true" /\ isAuthenticated' = "true")
             => intervals' = StartIntervals(NoIntervals)
          /\ isAuthenticated' # "true" => intervals' = NoIntervals
          /\ logoutCalls' > logoutCalls => intervals' = NoIntervals
          /\ ~mounted' => intervals' = NoIntervals]_vars

C16_Witness ==
    /\ intervals = StartIntervals(NoIntervals)
    /\ isAuthenticated = "true"
    /\ pathname = DefaultLanding
    /\ BagIn(DefaultLanding, refreshCalls)
    /\ BagIn(DefaultLanding, sessionCalls)

\* The pathname the completing checkSession call closed over.
ClosedOver ==
    IF loginCall.pc = "checking" /\ loginCall'.pc = "resolved"
    THEN loginCall.path
    ELSE CHOOSE p \in BagToSet(sessionCalls) :
            CopiesIn(p, sessionCalls') < CopiesIn(p, sessionCalls)

\* The grace window of a login: from its successful response (login() then
\* awaits its session check) until 2 seconds after that check completed
\* (the timeout is pending). Timeouts of equal delay fire in the order they
\* were set, so a pending one is the latest login's.
InGraceWindow == loginCall.pc = "checking" \/ clearTimers > 0

\* A logout call is in progress: it awaits /api/logout, or its timeout is
\* pending.
LogoutInProgress == logoutCalls > 0 \/ logoutTimers > 0

\* C17: a session check that resolves unauthenticated (non-ok response or
\* authenticated:false) on a path not under /login redirects to
\* /login?reason=session_expired, except while a logout is in progress and
\* during the grace window of a login; inside that window no session check
\* redirects to login.
C17_GraceWindow ==
    [][CheckCompletes
       => /\ (/\ lastCheck'.answer = "unauthenticated"
              /\ ~StartsWith(ClosedOver, LoginPath)
              /\ ~LogoutInProgress
              /\ ~InGraceWindow)
             => (lastCheck'.redirected /\ nav' = Some(SessionExpiredUrl))
          /\ (LogoutInProgress \/ InGraceWindow) => ~lastCheck'.redirected]_vars

(***************************************************************************)
(* Claims about the login route's failures (SpecBff)                       *)
(***************************************************************************)

\* A login request whose body parsed (to an object or to null) and has no
\* email or no password: the field is missing or empty.
LacksCredentials ==
    /\ resp.route = "login"
    /\ resp.body.kind \in {"obj", "null"}
    /\ (resp.body.email \in {Undefined, ""} \/ resp.body.password \in {Undefined, ""})

\* C18: a login request whose body lacks email or lacks password is rejected
\* with status 400 before any upstream call is made, and no cookie is written.
C18_MissingCredentialsIs400 ==
    LacksCredentials
    => /\ resp.res.status = 400
       /\ resp.up = NotCalled
       /\ resp.res.cookieOp = Keep
       /\ cookie = resp.before

C18_Witness ==
    /\ LacksCredentials
    /\ env.base
    /\ resp.body.email = "a@b.c" /\ resp.body.password = ""
    /\ resp.res.status = 400
    /\ cookie.present /\ cookie.value = "t1"

\* Upstream answered the login exchange 2xx with a body that has no
\* accessToken: not JSON, JSON without the field, or the field empty.
UpstreamOmitsToken ==
    /\ resp.route = "login"
    /\ resp.up.kind = "response" /\ Ok(resp.up.status)
    /\ \/ resp.up.body.json # "obj"
       \/ resp.up.body.accessToken \in {Undefined, ""}

\* C19: when upstream answers the login exchange 2xx but the body has no
\* accessToken (missing, empty, or not parsable as JSON), the login route
\* returns status 502 and writes no cookie.
C19_NoTokenIs502 ==
    UpstreamOmitsToken
    => /\ resp.res.status = 502
       /\ resp.res.cookieOp = Keep
       /\ cookie = resp.before

C19_Witness ==
    /\ UpstreamOmitsToken
    /\ resp.up.status = 201
    /\ resp.up.body.json = "obj" /\ resp.up.body.accessToken = ""
    /\ resp.res.status = 502
    /\ ~cookie.present

\* Upstream answered the login exchange with a status that is not 2xx.
UpstreamRejectsLogin ==
    /\ resp.route = "login"
    /\ resp.up.kind = "response" /\ ~Ok(resp.up.status)

\* C20: for every non-2xx upstream status on the login exchange the outward
\* status of the login route is exactly 401, and the error body carries the
\* upstream's `error` field, else the raw upstream text, else "Invalid
\* credentials".
C20_RejectionIs401 ==
    UpstreamRejectsLogin
    => /\ resp.res.status = 401
       /\ resp.res.body =
            [error |->
               IF resp.up.body.json = "obj" /\ resp.up.body.error \notin {Undefined, ""}
               THEN resp.up.body.error
               ELSE IF resp.up.body.text # "" THEN resp.up.body.text
               ELSE "Invalid credentials"]

C20_Witness ==
    /\ UpstreamRejectsLogin
    /\ resp.up.status = 429
    /\ resp.up.body.text = ""
    /\ resp.res.status = 401
    /\ resp.res.body = [error |-> "Invalid credentials"]

(***************************************************************************)
(* C21 .. C30                                                              *)
(***************************************************************************)

\* The cookie is present as the gate reads it: request.cookies.get(...)
\* gave a non-empty value.
CookiePresent(req) == req.token \notin {Undefined, ""}

\* C21: the gate's decision (pass through or redirect) is a function of the
\* request's path and the presence of the auth_token cookie only. Of any two
\* consecutive requests with the same path and the same presence, the second
\* gets the decision the first got, whatever the token's value, the query
\* string, and the request handled before; and a protected path with a
\* cookie is passed through unmodified for every token value.
C21_DecisionByPathAndPresence ==
    [][/\ (gate.res.kind # "none"
            /\ gate'.req.pathname = gate.req.pathname
            /\ CookiePresent(gate'.req) = CookiePresent(gate.req))
           => gate'.res.kind = gate.res.kind
       /\ (gate'.req.pathname \in ProtectedPaths /\ CookiePresent(gate'.req))
           => gate'.res = PassThrough]_vars

C21_Witness ==
    /\ gate.req.pathname = Decisions
    /\ gate.req.token = "t2"
    /\ gate.req.reason = Some("session_expired")
    /\ gate.res = PassThrough

\* The request paths the classification names as public: the login screen,
\* the static assets, the BFF auth routes marked public.
NamedPublicPaths ==
    {LoginPath, NextStatic, Favicon, ApiLogin, ApiLogout, ApiSession, ApiDebug}

\* The request paths that begin with one of those.
PrefixedPublicPaths == NamedPublicPaths \cup {LoginHelp}

\* What the gate does with a request whose path is in the set `public` or
\* not: a protected path without a cookie is redirected to the login screen,
\* a public path other than the login screen is passed through unmodified
\* with and without a cookie.
ClassifiedBy(public) ==
    gate.res.kind # "none"
    => /\ (gate.req.pathname \notin public /\ ~CookiePresent(gate.req))
          => (gate.res.kind = "redirect" /\ gate.res.pathname = LoginPath)
       /\ (gate.req.pathname \in public \ {LoginPath})
          => gate.res = PassThrough

\* C22 as stated: a path is public exactly when it is the login screen, a
\* static asset or a BFF auth route marked public, and every other path is
\* protected. Violated: /login/help is none of them and passes the gate
\* without a cookie.
C22_PublicExactlyNamed == ClassifiedBy(NamedPublicPaths)

\* C22 (amended): a path is public exactly when it begins with the path of
\* the login screen, of a static asset prefix or of a BFF auth route marked
\* public; every other path is protected, and a public path other than the
\* login screen is passed through unmodified whether or not a cookie is
\* present.
C22_PublicByPrefix == ClassifiedBy(PrefixedPublicPaths)

C22_Witness ==
    /\ gate.req.pathname = LoginHelp
    /\ gate.req.token = Undefined
    /\ gate.res = PassThrough

ReasonCodes == {Some("session_expired"), Some("token_expired")}

\* s occurs in t as a run of consecutive characters.
Contains(t, s) ==
    \E i \in 1..(Len(t) - Len(s) + 1) : SubSeq(t, i, i + Len(s) - 1) = s

\* C23: every way the application detects an unauthorized state ends in a
\* redirect to the login screen that carries both a `next` return path and
\* a `reason` code from {session_expired, token_expired}: the gate's
\* redirect of a request without a cookie, the redirect of the client's
\* session check and token refresh (router.replace), and the hard navigation
\* of authFetch. Violated: the client's redirects carry no `next`, and the
\* gate's carries only the reason the request already had.
C23_RedirectCarriesNextAndReason ==
    /\ (gate.res.kind = "redirect" /\ ~CookiePresent(gate.req))
       => /\ gate.res.pathname = LoginPath
          /\ gate.res.next # None
          /\ gate.res.reason \in ReasonCodes
    /\ (nav # None /\ nav # Some(LoginUrl))
       => /\ nav[1].pathname = LoginPath
          /\ nav[1].next # None
          /\ nav[1].reason \in ReasonCodes
    /\ page.href # None
       => /\ PathnameOf(page.href[1]) = LoginPath
          /\ Contains(page.href[1], <<"n", "e", "x", "t", "=", "%", "2", "F">>)
          /\ Contains(page.href[1], <<"r", "e", "a", "s", "o", "n", "=", "s", "e", "s",
                                      "s", "i", "o", "n", "_", "e", "x", "p", "i", "r",
                                      "e", "d">>)

\* C24: every BFF route handler (login, session, refresh, decisions delete)
\* catches every exception at its boundary and never lets one propagate:
\* when the upstream call throws, login and decisions answer 500 with an
\* error body, refresh answers its soft success, session fails open.
\* Violated: the decisions handler has no try/catch, and a rejected upstream
\* fetch leaves it.
C24_ExceptionsCaught ==
    resp.route \in {"login", "session", "refresh", "decisions"}
    => /\ resp.res.body # UncaughtBody
       /\ resp.up = Throws
          => CASE resp.route = "login" -> resp.res.status = 500
               [] resp.route = "decisions" -> resp.res.status = 500
               [] resp.route = "refresh" ->
                    resp.res.status = 200 /\ resp.res.body.success
               [] resp.route = "session" ->
                    resp.res.status = 200 /\ resp.res.body.authenticated

\* C30: the decisions DELETE route answers 401 without calling upstream when
\* the cookie is absent, answers with the upstream's own status and error
\* text when the upstream's status is not 2xx, answers {success: true} when
\* it is 2xx, and never writes or deletes the cookie.
C30_DecisionsDelete ==
    resp.route = "decisions"
    => /\ ~CookiePresent(resp)
          => (resp.res.status = 401 /\ resp.up = NotCalled)
       /\ (resp.up.kind = "response" /\ ~Ok(resp.up.status))
          => /\ resp.res.status = resp.up.status
             /\ resp.res.body = [error |-> resp.up.body.text]
       /\ (resp.up.kind = "response" /\ Ok(resp.up.status))
          => (resp.res.status = 200 /\ resp.res.body = [success |-> TRUE])
       /\ resp.res.cookieOp = Keep
       /\ cookie = resp.before

C30_Witness ==
    /\ resp.route = "decisions"
    /\ resp.token = "t1"
    /\ resp.up.kind = "response"
    /\ resp.up.status = 403
    /\ resp.up.body.text = "Bad Gateway"
    /\ resp.res.status = 403
    /\ cookie.present

LoginSucceeded(r) == r.route = "login" /\ r.res.status = 200

\* C26: the body of a successful login response is {success: true} and does
\* not depend on the token: of two consecutive successful logins, whatever
\* tokens upstream issued, the second body equals the first. The token is
\* handed over only in the cookie, which is httpOnly.
C26_LoginBodyIndependentOfToken ==
    [][LoginSucceeded(resp')
       => /\ resp'.res.body = [success |-> TRUE]
          /\ LoginSucceeded(resp) => resp'.res.body = resp.res.body
          /\ resp'.res.cookieOp.op = "set"
          /\ resp'.res.cookieOp.cookie.value = resp'.up.body.accessToken
          /\ resp'.res.cookieOp.cookie.httpOnly]_vars

C26_Witness ==
    /\ LoginSucceeded(resp)
    /\ resp.before.present /\ resp.before.value = "t1"
    /\ resp.up.body.accessToken = "t2"
    /\ cookie.value = "t2"
    /\ resp.res.body = [success |-> TRUE]

\* C27: a refresh request that carries no cookie is answered 401, with no
\* upstream call and no cookie write, whether backend refresh is enabled or
\* not.
C27_RefreshWithoutCookieIs401 ==
    (resp.route = "refresh" /\ ~CookiePresent(resp))
    => /\ resp.res.status = 401
       /\ resp.up = NotCalled
       /\ resp.res.cookieOp = Keep
       /\ cookie = resp.before

C27_Witness ==
    /\ resp.route = "refresh"
    /\ resp.token = Undefined
    /\ ~env.refresh
    /\ resp.res.status = 401
    /\ ~cookie.present

\* The response to login()'s request arrives and is a success.
LoginResponseOk ==
    /\ loginCall.pc = "fetching" /\ loginCall'.pc # "fetching"
    /\ loginCall'.via # "throws" /\ Ok(loginCall'.res.status)

\* C28: after a successful login response, login() always performs a session
\* check before it resolves: the response leaves the call waiting for the
\* check, the call resolves only from there, the flag then equals that
\* check's result, and the call resolves without error also when the check
\* reports unauthenticated (it is never rejected once the check is issued).
C28_LoginChecksBeforeResolving ==
    [][/\ LoginResponseOk
          => (loginCall'.pc = "checking" /\ checks' = checks + 1)
       /\ (loginCall'.pc = "resolved" /\ loginCall.pc # "resolved")
          => /\ loginCall.pc = "checking"
             /\ lastCheck'.answer \in {"authenticated", "unauthenticated", "threw"}
             /\ isAuthenticated' =
                   (IF lastCheck'.answer = "authenticated" THEN "true" ELSE "false")
       /\ (loginCall.pc = "checking" /\ loginCall' # loginCall)
          => loginCall'.pc = "resolved"]_vars

C28_Witness ==
    /\ loginCall.pc = "resolved"
    /\ loginCall.res.status = 200
    /\ cookie.present
    /\ lastCheck.answer = "unauthenticated"
    /\ isAuthenticated = "false"

\* What the login screen reads back from a query parameter's value: the
\* percent-escapes undone. A value ends at "&" or "#".
RECURSIVE ParamValue(_)
ParamValue(s) ==
    IF s = <<>> \/ Head(s) \in {"&", "#"} THEN <<>>
    ELSE IF Len(s) >= 3 /\ Head(s) = "%"
    THEN (CASE SubSeq(s, 2, 3) = <<"2", "F">> -> <<"/">>
            [] SubSeq(s, 2, 3) = <<"3", "F">> -> <<"?">>
            [] SubSeq(s, 2, 3) = <<"2", "5">> -> <<"%">>
            [] OTHER -> SubSeq(s, 1, 3)) \o ParamValue(SubSeq(s, 4, Len(s)))
    ELSE <<Head(s)>> \o ParamValue(Tail(s))

\* The query string of a relative URL: what follows the first "?".
RECURSIVE SearchOf(_)
SearchOf(href) ==
    IF href = <<>> THEN <<>>
    ELSE IF Head(href) = "?" THEN Tail(href)
    ELSE SearchOf(Tail(href))

SessionExpiredSearch ==
    <<"r", "e", "a", "s", "o", "n", "=", "s", "e", "s", "s", "i", "o", "n", "_",
      "e", "x", "p", "i", "r", "e", "d", "&", "n", "e", "x", "t", "=">>

\* href is /login?reason=session_expired&next=<path>.
NavigatesToLogin(href, path) ==
    /\ PathnameOf(href) = LoginPath
    /\ StartsWith(SearchOf(href), SessionExpiredSearch)
    /\ ParamValue(SubSeq(SearchOf(href), Len(SessionExpiredSearch) + 1,
                         Len(SearchOf(href)))) = path

\* C29: when authFetch receives a 401, acquires the latch and runs in a
\* browser, it sends POST /api/logout first, and whether that request
\* succeeds or throws it then navigates to
\* /login?reason=session_expired&next=<current path> and returns the
\* original 401 response. A response other than 401 sends no logout, starts
\* no navigation and leaves the latch alone.
C29_AuthFetch401 ==
    [][\A i \in FetchSlots :
        /\ (fetches[i].pc = "fetching" /\ fetches'[i].pc \in {"logout", "returned"}
                /\ fetches'[i].status = 401 /\ ~isRedirecting /\ page.window)
           => /\ fetches'[i].pc = "logout"
              /\ page'.logouts = page.logouts + 1
              /\ page'.href = page.href
              /\ isRedirecting'
        /\ (fetches[i].pc = "logout" /\ fetches'[i].pc \notin {"logout", "idle"})
           => /\ page'.href # None
              /\ NavigatesToLogin(page'.href[1], pathname)
              /\ fetches'[i] = [pc |-> "returned", status |-> 401]
        /\ (fetches[i].pc = "fetching" /\ fetches'[i].pc \in {"logout", "returned"}
                /\ fetches'[i].status # 401)
           => /\ fetches'[i].pc = "returned"
              /\ page'.logouts = page.logouts
              /\ page'.href = page.href
              /\ isRedirecting' = isRedirecting]_vars

C29_Witness ==
    /\ page.href # None
    /\ pathname = QueryLike
    /\ cookie.present
    /\ \E i \in FetchSlots : fetches[i] = [pc |-> "returned", status |-> 401]

\* An upstream whose answers depend on the token alone: what it answers a
\* validate call and what it answers a refresh call, for each token.
ValidateOracles == [Tokens -> ProviderValidations]
RefreshOracles == [Tokens -> ProviderUpstreams]
OracleAt(o, token) == IF token \in DOMAIN o THEN o[token] ELSE Throws

\* One session re-check run to its end from the cookie and flag in s: the
\* session route against the cookie, then checkSession on its response.
AfterSession(s, v) ==
    LET r == SessionGET(TokenOf(s.cookie), env, OracleAt(v, TokenOf(s.cookie))) IN
    [cookie |-> ApplyCookie(s.cookie, r.cookieOp),
     auth |-> CheckSessionOutcome("bff", r, pathname).auth]

\* One token refresh run to its end from the cookie and flag in s: the
\* refresh route against the cookie, then refreshToken on its response,
\* which sets the flag to false or leaves it.
AfterRefresh(s, f) ==
    LET r == RefreshPOST(TokenOf(s.cookie), env, OracleAt(f, TokenOf(s.cookie))) IN
    [cookie |-> ApplyCookie(s.cookie, r.cookieOp),
     auth |-> IF RefreshTokenOutcome("bff", r, pathname).auth = "false"
              THEN "false" ELSE s.auth]

\* C25: the periodic session re-check and the periodic token refresh commute
\* with respect to the final state. From every state in which both timers
\* are armed, and for every upstream, the cookie value and the flag after
\* the re-check followed by the refresh are those after the refresh followed
\* by the re-check. Violated: with a token that validate rejects and refresh
\* still exchanges for a new one, the re-check first leaves no cookie and the
\* flag false, the refresh first leaves the new token and the flag true.
C25_RecheckAndRefreshCommute ==
    (intervals.session > 0 /\ intervals.refresh > 0 /\ isAuthenticated = "true")
    => \A v \in ValidateOracles, f \in RefreshOracles :
          LET s == [cookie |-> cookie, auth |-> isAuthenticated]
              sr == AfterRefresh(AfterSession(s, v), f)
              rs == AfterSession(AfterRefresh(s, f), v)
          IN /\ TokenOf(sr.cookie) = TokenOf(rs.cookie)
             /\ sr.auth = rs.auth

(***************************************************************************)
(* C31 .. C38                                                              *)
(***************************************************************************)

\* What /api/refresh answers the controller over the transport `via`.
RefreshAnswer(via, up) ==
    IF via = "bff" THEN RefreshPOST(TokenOf(cookie), env, up) ELSE GatewayResult

\* The refreshToken call that read `path` handles the outcome (via, up) of
\* its fetch, and does so as C31 says.
RefreshHandledAsClaimed(path, via, up) ==
    /\ RefreshTokenDone(path, via, up)
    /\ IF via = "throws"
       THEN /\ isAuthenticated' = isAuthenticated
            /\ nav' = nav /\ pathname' = pathname
       ELSE IF ~Ok(RefreshAnswer(via, up).status)
       THEN /\ isAuthenticated' = "false"
            /\ IF ~isLoggingOut /\ ~StartsWith(path, LoginPath)
               THEN nav' = Some(TokenExpiredUrl) /\ pathname' = LoginPath
               ELSE nav' = nav /\ pathname' = pathname
       ELSE /\ isAuthenticated' = isAuthenticated
            /\ nav' = nav /\ pathname' = pathname

Follow(req, res) ==
    [pathname |-> res.pathname, next |-> res.next, reason |-> res.reason,
     token |-> req.token]

\* C32: with the cookie held fixed, following the gate's redirects from any
\* request reaches a passed-through request after at most two redirects:
\* if the request is redirected and the request that follows is redirected
\* again, the one after that is passed through.
C32_AtMostTwoRedirects ==
    gate.res.kind = "redirect"
    => LET second == Follow(gate.req, gate.res)
           answer == gateResponse(second)
       IN answer.kind = "redirect"
          => gateResponse(Follow(second, answer)) = PassThrough

C32_Witness ==
    /\ gate.req.pathname = LoginPath
    /\ gate.req.token = "t1"
    /\ gate.req.next = Some(LoginPath)
    /\ gate.res.kind = "redirect"
    /\ gateResponse(Follow(gate.req, gate.res)).kind = "redirect"

\* The gate passes a request for the protected path `path` that carries the
\* cookie value `token`.
GatePasses(path, token) ==
    gateResponse([pathname |-> path, next |-> None, reason |-> None,
                  token |-> token]) = PassThrough

\* A session check answered in simple mode: by route.ts, which has no other
\* mode, or by the route with the validation flag off.
SimpleModeCheck ==
    \/ resp.route = "sessionRoute"
    \/ resp.route = "session" /\ ~env.validate

\* C33: in simple mode the gate and the session check agree on every cookie
\* state (absent, empty, non-empty): the session check answers
\* authenticated: true for a cookie exactly when the gate passes a request
\* for a protected path that carries the same cookie.
C33_GateAgreesWithSessionCheck ==
    SimpleModeCheck
    => \A path \in ProtectedPaths :
          GatePasses(path, resp.token) <=> resp.res.body.authenticated

C33_Witness ==
    /\ resp.route = "session"
    /\ ~env.validate
    /\ resp.token = ""
    /\ cookie.present
    /\ ~resp.res.body.authenticated
    /\ ~GatePasses(ApiRefresh, resp.token)

\* A handler has run (the exchange is a new one) and the cookie is not what
\* it was.
HandlerChangesCookie ==
    resp'.route # "none" /\ resp' # resp /\ cookie' # cookie

\* The exchange is a login or a refresh that upstream answered 2xx with a
\* non-empty accessToken.
IssuedBy(r) ==
    /\ r.route \in {"login", "refresh"}
    /\ r.up.kind = "response" /\ Ok(r.up.status)
    /\ r.up.body.accessToken \notin {Undefined, ""}

\* C34: whatever login, session check, refresh, logout and decisions-delete
\* calls are made, a handler that changes the cookie either writes the
\* non-empty accessToken upstream issued in the 2xx login or refresh
\* response of that very exchange, or removes the cookie, and it removes it
\* only on logout and on a session check whose validation upstream rejected.
\* The cookie is absent at the start, so after handler calls alone it is
\* absent or holds an issued token.
C34_CookieHoldsIssuedToken ==
    [][HandlerChangesCookie
       => IF cookie'.present
          THEN /\ IssuedBy(resp')
               /\ cookie'.value = resp'.up.body.accessToken
          ELSE \/ resp'.route = "logout"
               \/ /\ resp'.route = "session"
                  /\ env.validate
                  /\ resp'.up.kind = "response" /\ ~Ok(resp'.up.status)]_vars

C34_Witness ==
    /\ resp.route = "refresh"
    /\ resp.before.present /\ resp.before.value = "t1"
    /\ IssuedBy(resp)
    /\ cookie.present /\ cookie.value = "t2"

\* C35: with the gate in front of the handlers, a request without a cookie
\* to /api/refresh or /api/decisions/{id} is redirected to /login and does
\* not reach the handler, so that no client observes those handlers' 401 for
\* a missing cookie; without a cookie only /api/login, /api/logout,
\* /api/session and /api/debug are reached.
C35_GateShieldsHandlers ==
    /\ (gate.req.pathname \in {ApiRefresh, ApiDecision} /\ ~CookiePresent(gate.req))
       => /\ gate.res.kind = "redirect" /\ gate.res.pathname = LoginPath
          /\ resp = NoResp
    /\ resp.route \in {"refresh", "decisions"}
       => /\ CookiePresent(resp)
          /\ resp.res.body \notin {[error |-> "No token found"], [error |-> "Unauthorized"]}
    /\ (resp.route # "none" /\ ~CookiePresent(resp))
       => resp.route \in {"login", "logout", "session"}
    /\ GatePasses(ApiDebug, Undefined)

C35_Witness ==
    /\ gate.req.pathname = ApiDecision
    /\ gate.req.token = ""
    /\ cookie.present
    /\ gate.res.kind = "redirect"
    /\ gate.res.next = Some(ApiDecision)
    /\ resp = NoResp

\* C36: after mount, every network call eventually completing or failing,
\* the flag eventually leaves unknown. While the provider is mounted and the
\* flag unknown, the initial session check is scheduled or a check is in
\* flight; and from there the flag becomes a boolean (whatever the check's
\* outcome: ok, non-ok, thrown), unless the provider is torn down first.
C36_FlagLeavesUnknown ==
    /\ []((mounted /\ isAuthenticated = "null")
            => (initialCheck \/ BagCardinality(sessionCalls) > 0))
    /\ (mounted /\ isAuthenticated = "null")
          ~> (isAuthenticated # "null" \/ ~mounted)

C36_Witness ==
    /\ mounted
    /\ ~initialCheck
    /\ lastCheck.answer = "threw"
    /\ isAuthenticated = "false"
    /\ cookie.present

\* C37: both latches are transient. Whenever the logging-out latch is set
\* (logout() was called, whether its request then succeeds or fails) it
\* eventually returns to false, and whenever the just-logged-in latch is set
\* (login() succeeded) it eventually returns to false. Violated: a logout
\* whose request fails at the network level never sets the timeout that
\* clears isLoggingOutRef.
C37_LatchesTransient ==
    /\ isLoggingOut ~> ~isLoggingOut
    /\ justLoggedIn ~> ~justLoggedIn

\* C38: on the alerts page, a request of the effect that is no longer the
\* most recently started one changes neither the alert list nor the loading
\* flag when its fetch or its body settles, whatever the outcome; and while
\* the page is mounted, once the most recently started request has completed
\* or failed the loading flag is false.
C38_OnlyLatestRequestSets ==
    /\ [][\A i \in DOMAIN effects :
            (i < Len(effects) /\ effects'[i].pc # effects[i].pc)
                => (alerts' = alerts /\ loading' = loading)]_vars
    /\ []((alertsMounted /\ effects # <<>> /\ effects[Len(effects)].pc = "done")
            => ~loading)

\* The limit was raised while the first request was in flight; the second
\* request has delivered its list and the first one is still reading its body.
C38_Witness ==
    /\ alertsMounted
    /\ Len(effects) = 2
    /\ effects[1].pc = "parsing"
    /\ effects[2].pc = "done"
    /\ limit = InitialLimit + LimitStep
    /\ alerts = AlertList(limit, 25)
    /\ ~loading

=============================================================================
